---------------------------- MODULE Spec2Model ----------------------------
(***************************************************************************)
(* Model of the Smart-Air-Purifier desktop controller                      *)
(* (src/desktop_air_purifier_app.py).                                      *)
(*                                                                         *)
(* The program is a set of lock-protected components (FanController,       *)
(* HealthMonitor, CalibrationManager, FilterTracker, AIController) driven  *)
(* by the Tk main thread and by worker threads of class App.  Each         *)
(* component is modelled by its fields and one action per method; every    *)
(* component has a specification of its own (SpecFan, SpecHealth, ...) in  *)
(* which the fields of the other components keep their constructor values. *)
(*                                                                         *)
(* An optional Python value (int | None) is a sequence: <<>> is None and   *)
(* <<v>> is the value v.                                                   *)
(***************************************************************************)
EXTENDS Integers, Sequences, FiniteSets, TLC

VARIABLES
    \* clock read by time.time(), in whole seconds
    now,
    \* FanController
    ai_target_speed, ai_applied_speed, last_ai_push_ts, fan_call,
    \* the time of the most recent mark_push, which no reset clears
    pushed_at,
    \* HealthMonitor
    esp_failures, api_failures, ai_failures,
    last_esp_ok, last_api_ok, last_ai_ok, last_error,
    \* AIController (fan-target decision class)
    last_fan_ai_ts, cached_fan_speed, last_fan_context, ai_call,
    \* CalibrationManager
    calibration, cal_call,
    \* FilterTracker
    filter_state, last_persist_ts, state_file, filter_call,
    \* App: flags, the main thread and the threads it starts
    shutdown_event, ai_auto_var, main_pc,
    autotune_in_progress, refresh_in_progress, refresh_workers, autotune_pc,
    \* App: the manual-send slot, its worker and the history of requests
    manual_pending_speed, manual_sender_running, manual_pc, manual_taken,
    last_request, pending_id, superseded, manual_sent,
    \* DataManager: the _request call in progress or last finished
    req,
    \* App: the refresh cycle.  The device, the timer, the worker's position
    \* and locals, the snapshot fields and the note caches of AIController
    device, exited, cycle_pc, cycle, prev_cycle,
    last_esp, last_weather, last_weather_fetch_ts, fail_safe_mode,
    cached_advice, last_advice_ts, last_weather_context,
    cached_pollution_comment, last_pollution_comment_ts,
    last_pollution_context,
    \* the locks: what each thread has still to do in the region of code it
    \* is in, and the locks it holds, oldest first
    thread_todo, held,
    \* DataManager: the send_esp_command call in progress or last finished
    cmd,
    \* DataManager: geo_cache, the read_openweather call of each thread and
    \* the geocode requests issued so far for each key
    geo_cache, weather_call, geocoded

fanVars == <<ai_target_speed, ai_applied_speed, last_ai_push_ts, fan_call,
            pushed_at>>

healthVars == <<esp_failures, api_failures, ai_failures,
                last_esp_ok, last_api_ok, last_ai_ok, last_error>>

aiVars == <<last_fan_ai_ts, cached_fan_speed, last_fan_context, ai_call>>

calVars == <<calibration, cal_call>>

filterVars == <<filter_state, last_persist_ts, state_file, filter_call>>

mainVars == <<shutdown_event, ai_auto_var, main_pc>>

refreshVars == <<autotune_in_progress, refresh_in_progress, refresh_workers,
                 autotune_pc>>

manualVars == <<manual_pending_speed, manual_sender_running, manual_pc,
                manual_taken, last_request, pending_id, superseded,
                manual_sent>>

appVars == <<mainVars, refreshVars, manualVars>>

dmVars == <<req>>

workerVars == <<device, exited, cycle_pc, cycle, prev_cycle,
                last_esp, last_weather, last_weather_fetch_ts,
                fail_safe_mode>>

noteVars == <<cached_advice, last_advice_ts, last_weather_context,
              cached_pollution_comment, last_pollution_comment_ts,
              last_pollution_context>>

cycleVars == <<workerVars, noteVars>>

lockVars == <<thread_todo, held>>

cmdVars == <<cmd>>

geoVars == <<geo_cache, weather_call, geocoded>>

restVars == <<dmVars, cycleVars, lockVars, cmdVars, geoVars>>

vars == <<now, fanVars, healthVars, aiVars, calVars, filterVars, appVars,
          restVars>>

-----------------------------------------------------------------------------
(* Helpers                                                                 *)

None == <<>>

Some(v) == <<v>>

Val(x) == x[1]

Abs(x) == IF x < 0 THEN -x ELSE x

Max2(a, b) == IF a >= b THEN a ELSE b

Min2(a, b) == IF a <= b THEN a ELSE b

\* clamp(value, low, high) = max(low, min(high, value))
clamp(value, low, high) == Max2(low, Min2(high, value))

\* Python's round() of num/den (den > 0): to the nearest integer, a tie to
\* the even one
RoundHalfEven(num, den) ==
    LET q == num \div den
        r == num % den
    IN  IF 2 * r > den THEN q + 1
        ELSE IF 2 * r < den THEN q
        ELSE IF q % 2 = 0 THEN q ELSE q + 1

-----------------------------------------------------------------------------
(* PROFILE_CONFIG: the fields of a profile the controller reads            *)

ProfileNames == {"quiet", "balanced", "aggressive"}

PROFILE_CONFIG ==
    [ quiet      |-> [min_speed |-> 28, max_speed |-> 82,  step |-> 7],
      balanced   |-> [min_speed |-> 34, max_speed |-> 92,  step |-> 10],
      aggressive |-> [min_speed |-> 38, max_speed |-> 100, step |-> 12] ]

-----------------------------------------------------------------------------
(* Bounds of the model                                                     *)

\* time.time() at construction; any value of at least LLM_MAX_INTERVAL_SECONDS
StartTime == 1000

\* the fan specification stops the clock this many seconds after StartTime
MaxFanClock == 4

\* the health specification records at most this many failures per subsystem
MaxFailures == 2

\* the advisory specification stops the clock this many seconds after StartTime
MaxAiClock == 300

\* a calibration file holds at most this many sample entries
MaxFileSamples == 3

\* demands are the multiples of 1/DemandDen in [0, 1]
DemandDen == 4

\* the filter specification stops the clock this many seconds after StartTime
MaxFilterClock == 30

\* _run_autotune threads alive at once in the application specification
MaxAutotuneThreads == 2

\* manual duty requests accepted in the application specification
MaxRequests == 2

\* _request is called with max_attempts in 0..MaxAttemptsBound
MaxAttemptsBound == 3

\* the cycle specification stops the clock this many seconds after StartTime
MaxCycleClock == 300

\* the cycle specification records at most this many failures in all
MaxCycleFailures == 2

\* geocode requests per city key
MaxGeocodes == 3

\* seconds the clock of the advisory throttle may advance
MaxThrottleClock == 240

-----------------------------------------------------------------------------
(* HealthMonitor                                                           *)

HealthInit ==
    /\ esp_failures = 0
    /\ api_failures = 0
    /\ ai_failures = 0
    /\ last_esp_ok = TRUE
    /\ last_api_ok = TRUE
    /\ last_ai_ok = TRUE
    /\ last_error = ""

\* a success that clears the count of the subsystem
record_esp_success_Resets ==
    /\ last_esp_ok' = TRUE
    /\ esp_failures' = 0
    /\ UNCHANGED <<api_failures, ai_failures, last_api_ok, last_ai_ok,
                   last_error>>

record_esp_success ==
    /\ last_esp_ok' = TRUE
    /\ UNCHANGED <<esp_failures, api_failures, ai_failures,
                   last_api_ok, last_ai_ok, last_error>>

record_esp_failure ==
    /\ last_esp_ok' = FALSE
    /\ esp_failures' = esp_failures + 1
    /\ last_error' = "esp"
    /\ UNCHANGED <<api_failures, ai_failures, last_api_ok, last_ai_ok>>

record_api_success ==
    /\ last_api_ok' = TRUE
    /\ UNCHANGED <<esp_failures, api_failures, ai_failures,
                   last_esp_ok, last_ai_ok, last_error>>

record_api_failure ==
    /\ last_api_ok' = FALSE
    /\ api_failures' = api_failures + 1
    /\ last_error' = "api"
    /\ UNCHANGED <<esp_failures, ai_failures, last_esp_ok, last_ai_ok>>

record_ai_success ==
    /\ last_ai_ok' = TRUE
    /\ UNCHANGED <<esp_failures, api_failures, ai_failures,
                   last_esp_ok, last_api_ok, last_error>>

record_ai_failure ==
    /\ last_ai_ok' = FALSE
    /\ ai_failures' = ai_failures + 1
    /\ last_error' = "ai"
    /\ UNCHANGED <<esp_failures, api_failures, last_esp_ok, last_api_ok>>

\* the counters string of status()
Counters == <<esp_failures, api_failures, ai_failures>>

\* status() with the API flag examined before the device flag
status_ApiFirst ==
    IF ~last_api_ok
    THEN [label |-> "Health: API Degraded", healthy |-> FALSE,
          counters |-> Counters]
    ELSE IF ~last_esp_ok
    THEN [label |-> "Health: ESP Offline", healthy |-> FALSE,
          counters |-> Counters]
    ELSE IF ~last_ai_ok
    THEN [label |-> "Health: AI Degraded", healthy |-> FALSE,
          counters |-> Counters]
    ELSE IF esp_failures + api_failures + ai_failures > 0
    THEN [label |-> "Health: Recovering", healthy |-> TRUE,
          counters |-> Counters]
    ELSE [label |-> "Health: Healthy", healthy |-> TRUE, counters |-> <<>>]

status ==
    IF ~last_esp_ok
    THEN [label |-> "Health: ESP Offline", healthy |-> FALSE,
          counters |-> Counters]
    ELSE IF ~last_api_ok
    THEN [label |-> "Health: API Degraded", healthy |-> FALSE,
          counters |-> Counters]
    ELSE IF ~last_ai_ok
    THEN [label |-> "Health: AI Degraded", healthy |-> FALSE,
          counters |-> Counters]
    ELSE IF esp_failures + api_failures + ai_failures > 0
    THEN [label |-> "Health: Recovering", healthy |-> TRUE,
          counters |-> Counters]
    ELSE [label |-> "Health: Healthy", healthy |-> TRUE, counters |-> <<>>]

-----------------------------------------------------------------------------
(* AIController: _should_query_llm, _context_changed, extract_speed and    *)
(* decide_fan_target.  Context values are kept in tenths (22.0 C is 220),  *)
(* so the thresholds 1.0, 6.0, 1.2, 8.0 and 0.5 are 10, 60, 12, 80 and 5.  *)
(* ContextKeys are the keys of the fan-target context.                     *)

LLM_MIN_INTERVAL_SECONDS == 120

LLM_MAX_INTERVAL_SECONDS == 300

ContextKeys == {"aqi", "pm2_5", "pm10", "no2", "o3",
                "room_temp", "outside_temp", "room_humidity"}

Threshold(key) ==
    IF key = "weather_desc" THEN 1
    ELSE IF key \in {"aqi"} THEN 10
    ELSE IF key \in {"pm2_5", "pm10"} THEN 60
    ELSE IF key \in {"room_temp", "outside_temp"} THEN 12
    ELSE IF key \in {"room_humidity", "outside_humidity"} THEN 80
    ELSE 5

\* _context_changed with a numeric change counted only above its threshold
context_changed_Strict(previous, current) ==
    \E key \in DOMAIN current :
        IF key = "weather_desc" THEN current[key] # previous[key]
        ELSE Abs(current[key] - previous[key]) > Threshold(key)

\* the numeric branch of _context_changed for every key but weather_desc:
\* a description is a string, kept as a code number, and any difference
\* of two descriptions is a change
context_changed(previous, current) ==
    \E key \in DOMAIN current :
        Abs(current[key] - previous[key]) >= Threshold(key)

\* _should_query_llm without its lower interval
should_query_llm_NoMin(t, last_ts, last_context, current_context) ==
    LET elapsed == t - last_ts
    IN  IF elapsed >= LLM_MAX_INTERVAL_SECONDS THEN TRUE
        ELSE IF last_context = None THEN TRUE
        ELSE context_changed(Val(last_context), current_context)

\* _should_query_llm without its upper interval
should_query_llm_NoMax(t, last_ts, last_context, current_context) ==
    LET elapsed == t - last_ts
    IN  IF elapsed < LLM_MIN_INTERVAL_SECONDS THEN FALSE
        ELSE IF last_context = None THEN TRUE
        ELSE context_changed(Val(last_context), current_context)

should_query_llm(t, last_ts, last_context, current_context) ==
    LET elapsed == t - last_ts
    IN  IF elapsed >= LLM_MAX_INTERVAL_SECONDS THEN TRUE
        ELSE IF elapsed < LLM_MIN_INTERVAL_SECONDS THEN FALSE
        ELSE IF last_context = None THEN TRUE
        ELSE context_changed(Val(last_context), current_context)

\* The outcome of ollama_generate.  "error": the request raised after its
\* retries (HTTP error, network error, timeout, a body that is not JSON) or
\* the JSON reply is not an object.  "text": the reply's response string,
\* of which extract_speed reads the first run of one to three digits.
ReplyError == [kind |-> "error"]

ReplyText(isEmpty, digits) ==
    [kind |-> "text", empty |-> isEmpty, digits |-> digits]

\* extract_speed(text, min_speed, max_speed, default_speed)
extract_speed(reply, min_speed, max_speed, default_speed) ==
    IF reply.digits = None
    THEN clamp(default_speed, min_speed, max_speed)
    ELSE clamp(Val(reply.digits), min_speed, max_speed)

\* the pairs <<baseline, ai_target>> of 0..100 whose exact blend ends in .5
\* and whose double-precision sum baseline * (1.0 - 0.35) + ai_target * 0.35
\* falls on the other side of the tie than round-half-even takes it: just
\* below it (round() gives one less) and just above it (one more)
BlendTiesBelow ==
    {<<0, 90>>, <<1, 71>>, <<2, 12>>, <<2, 92>>, <<3, 73>>, <<6, 96>>,
     <<8, 58>>}

BlendTiesAbove == {<<31, 1>>, <<52, 2>>, <<77, 7>>, <<92, 2>>}

\* int(round(baseline * 0.65 + ai_target * 0.35)) as the doubles give it,
\* for baseline and ai_target in 0..100
RoundBlend(baseline, ai_target) ==
    RoundHalfEven(baseline * 65 + ai_target * 35, 100)
        + (IF <<baseline, ai_target>> \in BlendTiesAbove THEN 1
           ELSE IF <<baseline, ai_target>> \in BlendTiesBelow THEN -1
           ELSE 0)

Blend_Unclamped(baseline, ai_target, weight, profile) ==
    IF weight = 0 THEN baseline ELSE RoundBlend(baseline, ai_target)

\* blended_target of decide_fan_target, blend_weight in hundredths: 35, or 0
\* after a failed request, when the sum is the baseline itself
Blend(baseline, ai_target, weight, profile) ==
    clamp(IF weight = 0 THEN baseline ELSE RoundBlend(baseline, ai_target),
          profile.min_speed, profile.max_speed)

AiInit ==
    /\ last_fan_ai_ts = 0
    /\ cached_fan_speed = None
    /\ last_fan_context = None
    /\ ai_call = [op |-> "init"]

\* whether decide_fan_target takes its except branch: only when
\* ollama_generate raised; a reply without digits, the empty reply included,
\* is parsed by extract_speed and counts as a success
AdvisoryFailed(reply) == reply.kind = "error"

\* the duty returned on a forced fail-safe request; a variant that clamps it
FailSafeTarget_Clamped(baseline, profile) ==
    clamp(baseline, profile.min_speed, profile.max_speed)

FailSafeTarget(baseline, profile) == baseline

\* decide_fan_target(config, profile_name, esp, weather, air, baseline,
\* force_fail_safe); fan_context is the context built from esp, weather and
\* air, reply the outcome of the advisory request if one is made.  The
\* HealthMonitor is updated by the record_ai_* call of the branch taken.
decide_fan_target(name, fan_context, baseline, force_fail_safe, reply) ==
    LET profile == PROFILE_CONFIG[name]
        asked   == cached_fan_speed # None
        should  == should_query_llm(now, last_fan_ai_ts, last_fan_context,
                                    fan_context)
        query   == cached_fan_speed = None \/ should
        failed  == query /\ AdvisoryFailed(reply)
        target  == IF ~query THEN Val(cached_fan_speed)
                   ELSE IF failed THEN baseline
                   ELSE extract_speed(reply, profile.min_speed,
                                      profile.max_speed, baseline)
        weight  == IF failed THEN 0 ELSE 35
    IN  IF force_fail_safe
        THEN /\ cached_fan_speed' = Some(baseline)
             /\ ai_call' = [op |-> "decide", forced |-> TRUE,
                            profile |-> name, baseline |-> baseline,
                            queried |-> FALSE, reply |-> ReplyError,
                            asked |-> FALSE, elapsed |-> 0,
                            same |-> FALSE, should |-> FALSE,
                            target |-> baseline,
                            result |-> FailSafeTarget(baseline, profile),
                            failed |-> TRUE]
             /\ UNCHANGED <<last_fan_ai_ts, last_fan_context, healthVars>>
        ELSE /\ cached_fan_speed' = IF query THEN Some(target)
                                    ELSE cached_fan_speed
             /\ last_fan_ai_ts' = IF query THEN now ELSE last_fan_ai_ts
             /\ last_fan_context' = IF query THEN Some(fan_context)
                                    ELSE last_fan_context
             /\ IF ~query THEN UNCHANGED healthVars
                ELSE IF failed THEN record_ai_failure
                ELSE record_ai_success
             /\ ai_call' = [op |-> "decide", forced |-> FALSE,
                            profile |-> name, baseline |-> baseline,
                            queried |-> query,
                            reply |-> IF query THEN reply ELSE ReplyError,
                            asked |-> asked,
                            elapsed |-> IF asked THEN now - last_fan_ai_ts
                                        ELSE 0,
                            same |-> asked /\ last_fan_context
                                                  = Some(fan_context),
                            should |-> asked /\ should,
                            target |-> target,
                            result |-> Blend(baseline, target, weight,
                                             profile),
                            failed |-> failed]

-----------------------------------------------------------------------------
(* CalibrationManager.  A raw file entry is [pwm, rpm] with optional       *)
(* fields: None is a missing or non-numeric value, which safe_int replaces *)
(* by its default.  A calibration is None or                               *)
(* [samples, spin_up_pwm, spin_up_rpm, max_rpm].                           *)

FAN_APP_MAX_RPM == 2200

\* safe_int(value, default) of an optional integer
safe_int(value, default) == IF value = None THEN default ELSE Val(value)

\* list.sort(key=...) is stable: x goes behind every element whose key is
\* not greater
InsertByPwm(sorted, x) ==
    LET k == Cardinality({i \in 1..Len(sorted) : sorted[i].pwm <= x.pwm})
    IN  SubSeq(sorted, 1, k) \o <<x>> \o SubSeq(sorted, k + 1, Len(sorted))

RECURSIVE SortByPwm(_)
SortByPwm(s) ==
    IF s = <<>> THEN <<>>
    ELSE InsertByPwm(SortByPwm(SubSeq(s, 1, Len(s) - 1)), s[Len(s)])

InsertByRpm(sorted, x) ==
    LET k == Cardinality({i \in 1..Len(sorted) : sorted[i].rpm <= x.rpm})
    IN  SubSeq(sorted, 1, k) \o <<x>> \o SubSeq(sorted, k + 1, Len(sorted))

RECURSIVE SortByRpm(_)
SortByRpm(s) ==
    IF s = <<>> THEN <<>>
    ELSE InsertByRpm(SortByRpm(SubSeq(s, 1, Len(s) - 1)), s[Len(s)])

RECURSIVE MaxRpmUpTo(_, _)
MaxRpmUpTo(s, i) ==
    IF i = 0 THEN 0 ELSE Max2(MaxRpmUpTo(s, i - 1), s[i].rpm)

\* the samples as read, without the running maximum
Monotonic_AsRead(s) == s

\* the running maximum of the RPM values (max_seen)
Monotonic(s) ==
    [i \in 1..Len(s) |-> [pwm |-> s[i].pwm, rpm |-> MaxRpmUpTo(s, i)]]

\* next((item for item in samples if item["rpm"] >= 250), samples[0])
SpinUpSample(s) ==
    IF \E i \in 1..Len(s) : s[i].rpm >= 250
    THEN s[CHOOSE i \in 1..Len(s) :
               /\ s[i].rpm >= 250
               /\ \A j \in 1..(i - 1) : s[j].rpm < 250]
    ELSE s[1]

\* max(samples, key=rpm): the first sample of the highest RPM
MaxSample(s) ==
    s[CHOOSE i \in 1..Len(s) :
          /\ \A j \in 1..Len(s) : s[j].rpm <= s[i].rpm
          /\ \A j \in 1..(i - 1) : s[j].rpm < s[i].rpm]

CleanSample(raw) ==
    [pwm |-> clamp(safe_int(raw.pwm, 0), 0, 100),
     rpm |-> clamp(safe_int(raw.rpm, 0), 0, FAN_APP_MAX_RPM)]

\* _load_calibration of a file [samples, spin_up_pwm, spin_up_rpm, max_rpm]
load_calibration(data) ==
    IF data.samples = <<>> THEN None
    ELSE
      LET clean == [i \in 1..Len(data.samples) |-> CleanSample(data.samples[i])]
          mono  == Monotonic(SortByPwm(clean))
          spin  == SpinUpSample(mono)
          spinPwm == clamp(safe_int(data.spin_up_pwm, spin.pwm), 0, 100)
          spinRpm == clamp(safe_int(data.spin_up_rpm, spin.rpm),
                           0, FAN_APP_MAX_RPM)
      IN  Some([samples |-> mono,
                spin_up_pwm |-> spinPwm,
                spin_up_rpm |-> spinRpm,
                max_rpm |-> clamp(safe_int(data.max_rpm, MaxSample(mono).rpm),
                                  spinRpm, FAN_APP_MAX_RPM)])

\* the calibration _run_autotune builds from the averaged sweep samples
fit_from_sweep(samples) ==
    LET mono == Monotonic(samples)
    IN  [samples |-> mono,
         spin_up_pwm |-> SpinUpSample(mono).pwm,
         spin_up_rpm |-> SpinUpSample(mono).rpm,
         max_rpm |-> clamp(MaxSample(mono).rpm, 0, FAN_APP_MAX_RPM)]

ValidSamples(samples) ==
    SelectSeq(samples, LAMBDA x : /\ 0 <= x.pwm /\ x.pwm <= 100
                                  /\ 0 <= x.rpm /\ x.rpm <= FAN_APP_MAX_RPM)

\* target_rpm for the demand dnum / DemandDen
TargetRpm(spin_up_rpm, max_rpm, dnum) ==
    RoundHalfEven(spin_up_rpm * DemandDen
                      + clamp(dnum, 0, DemandDen) * (max_rpm - spin_up_rpm),
                  DemandDen)

\* the unclamped duty of an end sample
EndDuty_Unclamped(sample, profile) == sample.pwm

\* the duty returned when the target is at or beyond an end sample
EndDuty(sample, profile) ==
    clamp(sample.pwm, profile.min_speed, profile.max_speed)

\* the duty half way between the pair, whatever the target
InterpolatedDuty_Midpoint(low, high, target_rpm) ==
    RoundHalfEven(low.pwm + high.pwm, 2)

\* the interpolation measured from the high sample of the pair
InterpolatedDuty_FromHigh(low, high, target_rpm) ==
    RoundHalfEven(high.pwm * (high.rpm - low.rpm)
                      - (target_rpm - low.rpm) * (high.pwm - low.pwm),
                  high.rpm - low.rpm)

\* int(round(low.pwm + fraction * (high.pwm - low.pwm))), the fraction
\* being that of the target between the RPM of the pair
InterpolatedDuty(low, high, target_rpm) ==
    RoundHalfEven(low.pwm * (high.rpm - low.rpm)
                      + (target_rpm - low.rpm) * (high.pwm - low.pwm),
                  high.rpm - low.rpm)

\* the pairs of neighbours that bracket the target
Brackets(valid, target_rpm) ==
    {i \in 2..Len(valid) : /\ valid[i - 1].rpm <= target_rpm
                           /\ target_rpm <= valid[i].rpm}

\* the for loop with a bracket test that leaves the ends of a pair out
Interpolate_Strict(valid, target_rpm, profile) ==
    LET hits == {i \in 2..Len(valid) : /\ valid[i - 1].rpm < target_rpm
                                       /\ target_rpm < valid[i].rpm}
    IN  IF hits = {} THEN None
        ELSE LET index == CHOOSE i \in hits : \A j \in hits : i <= j
             IN  Some(clamp(InterpolatedDuty(valid[index - 1], valid[index],
                                             target_rpm),
                            profile.min_speed, profile.max_speed))

\* the for loop of pwm_for_demand: the first bracketing pair decides
Interpolate(valid, target_rpm, profile) ==
    LET hits == Brackets(valid, target_rpm)
    IN  IF hits = {} THEN None
        ELSE LET index == CHOOSE i \in hits : \A j \in hits : i <= j
                 low   == valid[index - 1]
                 high  == valid[index]
             IN  IF high.rpm = low.rpm
                 THEN Some(clamp(high.pwm, profile.min_speed,
                                 profile.max_speed))
                 ELSE Some(clamp(InterpolatedDuty(low, high, target_rpm),
                                 profile.min_speed, profile.max_speed))

\* the end of pwm_for_demand: the duty for the target RPM over the sorted
\* valid samples
DutyForTarget(valid, target_rpm, profile) ==
    IF target_rpm <= valid[1].rpm
    THEN Some(EndDuty(valid[1], profile))
    ELSE IF target_rpm >= valid[Len(valid)].rpm
    THEN Some(EndDuty(valid[Len(valid)], profile))
    ELSE Interpolate(valid, target_rpm, profile)

\* pwm_for_demand(dnum / DemandDen, profile): None or the duty
pwm_for_demand(cal, dnum, profile) ==
    IF cal = None THEN None
    ELSE IF Len(Val(cal).samples) < 2 THEN None
    ELSE
      LET valid == SortByRpm(ValidSamples(Val(cal).samples))
      IN  IF Len(valid) < 2 THEN None
          ELSE IF Val(cal).max_rpm <= Val(cal).spin_up_rpm THEN None
          ELSE
            DutyForTarget(valid,
                          TargetRpm(Val(cal).spin_up_rpm, Val(cal).max_rpm,
                                    dnum),
                          profile)

\* no calibration file: _load_calibration returns None
CalInitNoFile ==
    /\ calibration = None
    /\ cal_call = [op |-> "init"]

save_calibration(cal) ==
    /\ calibration' = Some(cal)
    /\ cal_call' = [op |-> "save"]

-----------------------------------------------------------------------------
(* FilterTracker                                                           *)
(* runtime_hours is counted in units of 1/RuntimeUnitsPerHour hour, in     *)
(* which the wear of a whole number of seconds at a whole duty is a whole  *)
(* number: (e / 3600) * (0.25 + 0.75 * (s / 100)) hours is                 *)
(* e * (100 + 3 * s) units.  The cap of a loaded runtime, 50000.0 hours,   *)
(* is more units than an integer of the model holds, so a runtime is a     *)
(* number of caps and a number of units beside it: Runtime(1, 400) is      *)
(* 50000 hours and 400 units.  The units stay below MaxRuntimeUnits, by    *)
(* which sums, comparisons and quotients of runtimes are exact.            *)

MIN_FILTER_HOURS == 100

MAX_FILTER_HOURS == 5000

DEFAULT_FILTER_REPLACEMENT_HOURS == 720

RuntimeUnitsPerHour == 3600 * 400

MAX_RUNTIME_HOURS == 50000

\* the units beside the caps of a runtime are fewer than this many, so
\* that units times a replacement interval is less than one cap of units
MaxRuntimeUnits ==
    MAX_RUNTIME_HOURS * (RuntimeUnitsPerHour \div MAX_FILTER_HOURS)

Runtime(caps, units) == [caps |-> caps, units |-> units]

NoRuntime == Runtime(0, 0)

RuntimeLeq(a, b) ==
    a.caps < b.caps \/ (a.caps = b.caps /\ a.units <= b.units)

RuntimeAdd(a, units) == Runtime(a.caps, a.units + units)

\* the whole hours of a runtime
RuntimeHours(a) ==
    a.caps * MAX_RUNTIME_HOURS + (a.units \div RuntimeUnitsPerHour)

\* clamp(runtime, 0.0, 50000.0) of _load_state
LoadedRuntime(raw) ==
    IF RuntimeLeq(raw, NoRuntime) THEN NoRuntime
    ELSE IF RuntimeLeq(Runtime(1, 0), raw) THEN Runtime(1, 0)
    ELSE raw

FilterState(runtime, last_update, interval) ==
    [runtime_hours |-> runtime, last_update_ts |-> last_update,
     replacement_interval_hours |-> interval]

\* FilterTracker.__init__ with no state file
FilterInitNoFile ==
    /\ filter_state = FilterState(NoRuntime, now,
                                  DEFAULT_FILTER_REPLACEMENT_HOURS)
    /\ last_persist_ts = now
    /\ state_file = None
    /\ filter_call = [op |-> "init"]

\* _load_state on a state file that holds an object
load_state(data) ==
    FilterState(LoadedRuntime(data.runtime_hours),
                data.last_update_ts,
                clamp(data.replacement_interval_hours,
                      MIN_FILTER_HOURS, MAX_FILTER_HOURS))

\* a value num/den whose numerator is a runtime; usage_percent is
\* num/den * 100 / RuntimeUnitsPerHour
Frac(num, den) == [num |-> num, den |-> den]

\* a <= b for two values whose numerators are runtimes, by cross
\* multiplication
FracLeq(a, b) ==
    LET caps  == a.num.caps * b.den - b.num.caps * a.den
        units == a.num.units * b.den - b.num.units * a.den
    IN  caps < 0 \/ (caps = 0 /\ units <= 0)

usage_percent(state) ==
    IF state.replacement_interval_hours <= 0
    THEN Frac(NoRuntime, 1)
    ELSE Frac(IF RuntimeLeq(state.runtime_hours, NoRuntime) THEN NoRuntime
              ELSE state.runtime_hours,
              state.replacement_interval_hours)

\* _persist_locked: the write succeeds, or fails and is only logged
persist_locked(state, ok) ==
    IF ok
    THEN /\ state_file' = Some(state)
         /\ last_persist_ts' = now
    ELSE UNCHANGED <<state_file, last_persist_ts>>

flush(ok) ==
    /\ persist_locked(filter_state, ok)
    /\ filter_call' = [op |-> "flush",
                       before |-> usage_percent(filter_state),
                       after |-> usage_percent(filter_state)]
    /\ UNCHANGED filter_state

set_replacement_interval(hours, ok) ==
    LET state == [filter_state EXCEPT !.replacement_interval_hours =
                      clamp(hours, MIN_FILTER_HOURS, MAX_FILTER_HOURS)]
    IN  /\ filter_state' = state
        /\ persist_locked(state, ok)
        /\ filter_call' = [op |-> "set_interval", hours |-> hours,
                           old_interval |->
                               filter_state.replacement_interval_hours,
                           before |-> usage_percent(filter_state),
                           after |-> usage_percent(state)]

ElapsedSeconds_Signed(t, last_update) == t - last_update

ElapsedSeconds(t, last_update) == Max2(0, t - last_update)

\* the wear of elapsed seconds at a duty, in runtime units
Wear(elapsed_seconds, speed_percent) ==
    elapsed_seconds * (100 + 3 * clamp(speed_percent, 0, 100))

update_runtime(speed_percent, ok) ==
    LET last_update == IF filter_state.last_update_ts <= 0
                       THEN now
                       ELSE filter_state.last_update_ts
        elapsed_seconds == ElapsedSeconds(now, last_update)
        state == FilterState(
                     RuntimeAdd(filter_state.runtime_hours,
                                Wear(elapsed_seconds, speed_percent)),
                     now,
                     filter_state.replacement_interval_hours)
    IN  /\ filter_state' = state
        /\ IF now - last_persist_ts >= 20
           THEN persist_locked(state, ok)
           ELSE UNCHANGED <<state_file, last_persist_ts>>
        /\ filter_call' = [op |-> "update", speed |-> speed_percent,
                           elapsed |-> now - last_update,
                           persisted |-> state_file' = Some(state),
                           before |-> usage_percent(filter_state),
                           after |-> usage_percent(state)]

\* reset with the timestamp zeroed instead of set to the current time
reset_ZeroTimestamp(ok) ==
    LET state == FilterState(NoRuntime, 0,
                             filter_state.replacement_interval_hours)
    IN  /\ filter_state' = state
        /\ persist_locked(state, ok)
        /\ filter_call' = [op |-> "reset", at |-> now, written |-> ok,
                           before |-> usage_percent(filter_state),
                           after |-> usage_percent(state)]

reset(ok) ==
    LET state == FilterState(NoRuntime, now,
                             filter_state.replacement_interval_hours)
    IN  /\ filter_state' = state
        /\ persist_locked(state, ok)
        /\ filter_call' = [op |-> "reset", at |-> now, written |-> ok,
                           before |-> usage_percent(filter_state),
                           after |-> usage_percent(state)]

-----------------------------------------------------------------------------
(* DataManager._request.  An attempt ends with a body ("ok") or with one   *)
(* of the exceptions the loop catches.  req records the call: its          *)
(* arguments, the loop index, the outcome of every attempt made, the       *)
(* delays slept and the errors raised to the caller.                       *)

\* the except clauses of _request, in their order
ErrorKinds == {"http", "network", "timeout", "invalid_json", "other"}

\* a body that is not JSON only fails a request that expects JSON
AttemptOutcomes(expect_json) ==
    {"ok"} \cup (IF expect_json THEN ErrorKinds
                                ELSE ErrorKinds \ {"invalid_json"})

\* the RuntimeError built by the except clause of the kind
Classified(kind) == [type |-> "RuntimeError", kind |-> kind]

\* RuntimeError("Request failed without an error message")
NoMessage == [type |-> "RuntimeError", kind |-> "no_message"]

RequestIdle ==
    [pc |-> "idle", expect_json |-> TRUE, max_attempts |-> 0, attempt |-> 0,
     outcomes |-> <<>>, slept |-> <<>>, last_error |-> None,
     raised |-> <<>>]

DataManagerInit == req = RequestIdle

SleepsAfter_Always(attempt, max_attempts) == TRUE

\* whether a failed attempt is followed by a sleep
SleepsAfter(attempt, max_attempts) == attempt < max_attempts - 1

delay_seconds(attempt) == 2 ^ attempt

\* the call of _request: the loop is about to start
request_start(expect_json, max_attempts) ==
    req' = [RequestIdle EXCEPT !.pc = "loop", !.expect_json = expect_json,
                               !.max_attempts = max_attempts]

\* one iteration of the for loop, the sleep after a failure included
request_attempt(outcome) ==
    /\ req.pc = "loop"
    /\ req.attempt < req.max_attempts
    /\ outcome \in AttemptOutcomes(req.expect_json)
    /\ req' =
          IF outcome = "ok"
          THEN [req EXCEPT !.pc = "returned",
                           !.outcomes = Append(@, outcome)]
          ELSE [req EXCEPT
                   !.outcomes = Append(@, outcome),
                   !.last_error = Some(Classified(outcome)),
                   !.slept = IF SleepsAfter(req.attempt, req.max_attempts)
                             THEN Append(@, delay_seconds(req.attempt))
                             ELSE @,
                   !.attempt = @ + 1]

\* the loop is exhausted: the raise after it
request_raise ==
    /\ req.pc = "loop"
    /\ req.attempt >= req.max_attempts
    /\ req' = [req EXCEPT
                  !.pc = "raised",
                  !.raised = Append(@, IF req.last_error # None
                                       THEN Val(req.last_error)
                                       ELSE NoMessage)]

-----------------------------------------------------------------------------
(* FanController                                                           *)

\* inputs of compute_applied_speed: targets and device-reported duties,
\* some of them outside every profile's range
TargetSpeeds == {-5, 61, 120}

ReportedSpeeds == {0, 100}

FanInit ==
    /\ ai_target_speed = None
    /\ ai_applied_speed = None
    /\ last_ai_push_ts = 0
    /\ fan_call = [op |-> "init"]
    /\ pushed_at = None

\* the applied speed compute_applied_speed stores, given the seeded value
StepApplied_NoSlew(applied, target, profile) ==
    clamp(target, profile.min_speed, profile.max_speed)

\* the step without the deadband
StepApplied_NoDeadband(applied, target, profile) ==
    clamp(applied + clamp(target - applied, -profile.step, profile.step),
          profile.min_speed, profile.max_speed)

\* a step that always moves by the whole step limit
StepApplied_FullStep(applied, target, profile) ==
    LET error == target - applied
        moved == IF error >= 2 THEN applied + profile.step
                 ELSE IF error <= -2 THEN applied - profile.step
                 ELSE applied
    IN  clamp(moved, profile.min_speed, profile.max_speed)

StepApplied(applied, target, profile) ==
    LET error == target - applied
        step  == clamp(error, -profile.step, profile.step)
        moved == IF Abs(error) >= 2 THEN applied + step ELSE applied
    IN  clamp(moved, profile.min_speed, profile.max_speed)

compute_applied_speed(target_speed, current_speed, name) ==
    LET profile == PROFILE_CONFIG[name]
        target  == clamp(target_speed, profile.min_speed, profile.max_speed)
        seeded  == IF ai_applied_speed = None
                   THEN clamp(current_speed, profile.min_speed, profile.max_speed)
                   ELSE Val(ai_applied_speed)
        applied == StepApplied(seeded, target, profile)
    IN  /\ ai_target_speed' = Some(target)
        /\ ai_applied_speed' = Some(applied)
        /\ fan_call' = [op |-> "compute", profile |-> name,
                        before |-> ai_applied_speed, seeded |-> seeded,
                        applied |-> applied, target |-> target]
        /\ UNCHANGED <<last_ai_push_ts, pushed_at, now>>

\* reset_ai_state leaving the applied duty in place
reset_ai_state_KeepsApplied ==
    /\ ai_target_speed' = None
    /\ last_ai_push_ts' = 0
    /\ fan_call' = [op |-> "reset"]
    /\ UNCHANGED <<ai_applied_speed, pushed_at, now>>

reset_ai_state ==
    /\ ai_target_speed' = None
    /\ ai_applied_speed' = None
    /\ last_ai_push_ts' = 0
    /\ fan_call' = [op |-> "reset"]
    /\ UNCHANGED <<pushed_at, now>>

\* should_push without its interval
ShouldPushResult_NoInterval(current_speed) ==
    IF ai_applied_speed = None
    THEN FALSE
    ELSE Abs(Val(ai_applied_speed) - current_speed) >= 2

ShouldPushResult(current_speed) ==
    IF ai_applied_speed = None
    THEN FALSE
    ELSE /\ Abs(Val(ai_applied_speed) - current_speed) >= 2
         /\ (now - last_ai_push_ts) > 3

should_push(current_speed) ==
    /\ fan_call' = [op |-> "should_push", current |-> current_speed,
                    result |-> ShouldPushResult(current_speed)]
    /\ UNCHANGED <<ai_target_speed, ai_applied_speed, last_ai_push_ts,
                   pushed_at, now>>

mark_push ==
    /\ last_ai_push_ts' = now
    /\ pushed_at' = Some(now)
    /\ fan_call' = [op |-> "mark_push"]
    /\ UNCHANGED <<ai_target_speed, ai_applied_speed, now>>

-----------------------------------------------------------------------------
(* App: the Tk main thread and the threads it starts.  The main thread     *)
(* runs one handler at a time; refresh_async is three steps of its caller  *)
(* (the test of autotune_in_progress, the test-and-set of                  *)
(* refresh_in_progress under refresh_lock, Thread.start), so that other    *)
(* threads interleave between them.  A refresh cycle and a sweep are       *)
(* followed through the flags they hold and release; what the bodies of    *)
(* the threads do to the components, the health records among it, is the   *)
(* subject of the component specifications.                                *)
(* Labels, the slider and manual_override_until are not part of the model. *)

AutotuneThreads == 1..MaxAutotuneThreads

\* the state after App.__init__: its closing _schedule_refresh() has started
\* the first refresh cycle
AppInit ==
    /\ shutdown_event = FALSE
    /\ ai_auto_var = TRUE
    /\ main_pc = "idle"
    /\ autotune_in_progress = FALSE
    /\ refresh_in_progress = TRUE
    /\ refresh_workers = 1
    /\ autotune_pc = [t \in AutotuneThreads |-> "none"]
    /\ manual_pending_speed = None
    /\ manual_sender_running = FALSE
    /\ manual_pc = "none"
    /\ manual_taken = None
    /\ last_request = [id |-> 0, speed |-> 0]
    /\ pending_id = None
    /\ superseded = {}
    /\ manual_sent = {}

\* the main loop is dispatching and no handler is running
\* the main thread taking events whether or not the flag is set
MainIdle_IgnoresShutdown == main_pc = "idle"

MainIdle == main_pc = "idle" /\ ~shutdown_event

\* refresh_async, first step: where its caller stands after the test of
\* autotune_in_progress
refresh_async_entry == IF autotune_in_progress THEN "done" ELSE "ra_checked"

RefreshAdmitted_Always(in_progress) == TRUE

\* the test under refresh_lock
RefreshAdmitted(in_progress) == ~in_progress

\* refresh_async, second step: where its caller stands after the block under
\* refresh_lock
refresh_async_lock ==
    IF RefreshAdmitted(refresh_in_progress) THEN "ra_locked" ELSE "done"

MainAfter(pc) == IF pc = "done" THEN "idle" ELSE pc

ThreadAfter(pc) == IF pc = "done" THEN "none" ELSE pc

\* _schedule_refresh, fired by the timer
schedule_refresh ==
    /\ MainIdle
    /\ main_pc' = MainAfter(refresh_async_entry)
    /\ UNCHANGED <<shutdown_event, ai_auto_var, refreshVars, manualVars>>
    /\ UNCHANGED <<now, fanVars, healthVars, aiVars, calVars, filterVars,
                   restVars>>

\* the Refresh button and Ctrl+R
refresh_button ==
    /\ MainIdle
    /\ main_pc' = MainAfter(refresh_async_entry)
    /\ UNCHANGED <<shutdown_event, ai_auto_var, refreshVars, manualVars>>
    /\ UNCHANGED <<now, fanVars, healthVars, aiVars, calVars, filterVars,
                   restVars>>

main_refresh_lock ==
    /\ main_pc = "ra_checked"
    /\ main_pc' = MainAfter(refresh_async_lock)
    /\ refresh_in_progress' =
          (refresh_in_progress \/ refresh_async_lock = "ra_locked")
    /\ UNCHANGED <<shutdown_event, ai_auto_var, autotune_in_progress,
                   refresh_workers, autotune_pc, manualVars>>
    /\ UNCHANGED <<now, fanVars, healthVars, aiVars, calVars, filterVars,
                   restVars>>

main_refresh_start ==
    /\ main_pc = "ra_locked"
    /\ main_pc' = "idle"
    /\ refresh_workers' = refresh_workers + 1
    /\ UNCHANGED <<shutdown_event, ai_auto_var, autotune_in_progress,
                   refresh_in_progress, autotune_pc, manualVars>>
    /\ UNCHANGED <<now, fanVars, healthVars, aiVars, calVars, filterVars,
                   restVars>>

\* the end of _refresh_worker: its finally block clears the flag
refresh_worker_finish ==
    /\ refresh_workers > 0
    /\ refresh_workers' = refresh_workers - 1
    /\ refresh_in_progress' = FALSE
    /\ UNCHANGED <<mainVars, autotune_in_progress, autotune_pc, manualVars>>
    /\ UNCHANGED <<now, fanVars, healthVars, aiVars, calVars, filterVars,
                   restVars>>

FreeAutotuneThreads == {t \in AutotuneThreads : autotune_pc[t] = "none"}

\* start_autotune, the Autotune button
start_autotune ==
    /\ MainIdle
    /\ IF autotune_in_progress
       THEN UNCHANGED <<autotune_in_progress, autotune_pc>>
       ELSE /\ FreeAutotuneThreads # {}
            /\ autotune_in_progress' = TRUE
            /\ LET t == CHOOSE x \in FreeAutotuneThreads :
                            \A y \in FreeAutotuneThreads : x <= y
               IN  autotune_pc' = [autotune_pc EXCEPT ![t] = "sweep"]
    /\ UNCHANGED <<mainVars, refresh_in_progress, refresh_workers, manualVars>>
    /\ UNCHANGED <<now, fanVars, healthVars, aiVars, calVars, filterVars,
                   restVars>>

\* _run_autotune reaches the end of its finally block: the sweep is over and
\* the flag is cleared
autotune_finish(t) ==
    /\ autotune_pc[t] = "sweep"
    /\ autotune_in_progress' = FALSE
    /\ autotune_pc' = [autotune_pc EXCEPT ![t] = "ra_entry"]
    /\ UNCHANGED <<mainVars, refresh_in_progress, refresh_workers, manualVars>>
    /\ UNCHANGED <<now, fanVars, healthVars, aiVars, calVars, filterVars,
                   restVars>>

\* the refresh_async call that ends _run_autotune, in the sweep's thread
autotune_refresh_entry(t) ==
    /\ autotune_pc[t] = "ra_entry"
    /\ autotune_pc' = [autotune_pc EXCEPT
                          ![t] = ThreadAfter(refresh_async_entry)]
    /\ UNCHANGED <<mainVars, autotune_in_progress, refresh_in_progress,
                   refresh_workers, manualVars>>
    /\ UNCHANGED <<now, fanVars, healthVars, aiVars, calVars, filterVars,
                   restVars>>

autotune_refresh_lock(t) ==
    /\ autotune_pc[t] = "ra_checked"
    /\ autotune_pc' = [autotune_pc EXCEPT
                          ![t] = ThreadAfter(refresh_async_lock)]
    /\ refresh_in_progress' =
          (refresh_in_progress \/ refresh_async_lock = "ra_locked")
    /\ UNCHANGED <<mainVars, autotune_in_progress, refresh_workers,
                   manualVars>>
    /\ UNCHANGED <<now, fanVars, healthVars, aiVars, calVars, filterVars,
                   restVars>>

autotune_refresh_start(t) ==
    /\ autotune_pc[t] = "ra_locked"
    /\ autotune_pc' = [autotune_pc EXCEPT ![t] = "none"]
    /\ refresh_workers' = refresh_workers + 1
    /\ UNCHANGED <<mainVars, autotune_in_progress, refresh_in_progress,
                   manualVars>>
    /\ UNCHANGED <<now, fanVars, healthVars, aiVars, calVars, filterVars,
                   restVars>>

\* _run_autotune step by step, one step per device call or group of device
\* calls that end the same way.  The position of the thread says where it
\* is and, from the first reading on, whether the device was found in
\* automatic mode (previous_auto).  The duties and samples of the sweep and
\* what it does to the device are left out.

\* the positions from the start of the thread to the clearing of the flag
SweepPositions ==
    {"sweep", "toggle", "points", "points_auto", "save", "save_auto",
     "restore_speed", "restore_speed_auto", "restore_auto", "restore_read",
     "clear"}

\* the thread moves on, the main thread and the flags as they were
SweepTo(t, pc) ==
    /\ autotune_pc' = [autotune_pc EXCEPT ![t] = pc]
    /\ UNCHANGED <<mainVars, autotune_in_progress, refresh_in_progress,
                   refresh_workers, manualVars>>
    /\ UNCHANGED <<now, fanVars, aiVars, calVars, filterVars, dmVars,
                   cycleVars, lockVars, cmdVars, geoVars>>

\* the first reading of the device: reply is the mode it reports, or
\* "failed" when read_esp_state raises, which the handler records
sweep_prepare(t, reply) ==
    /\ autotune_pc[t] = "sweep"
    /\ IF reply = "failed"
       THEN record_esp_failure /\ SweepTo(t, "restore_read")
       ELSE /\ record_esp_success
            /\ SweepTo(t, IF reply = "auto" THEN "toggle" ELSE "points")

\* the /toggle that takes the device out of automatic mode
sweep_toggle(t, ok) ==
    /\ autotune_pc[t] = "toggle"
    /\ IF ok
       THEN UNCHANGED healthVars /\ SweepTo(t, "points_auto")
       ELSE record_esp_failure /\ SweepTo(t, "restore_speed_auto")

\* the loop over the sweep points: a /set?speed= and six readings each
sweep_points(t, ok) ==
    /\ autotune_pc[t] \in {"points", "points_auto"}
    /\ IF ok
       THEN /\ UNCHANGED healthVars
            /\ SweepTo(t, IF autotune_pc[t] = "points"
                          THEN "save" ELSE "save_auto")
       ELSE /\ record_esp_failure
            /\ SweepTo(t, IF autotune_pc[t] = "points"
                          THEN "restore_speed" ELSE "restore_speed_auto")

\* the samples made monotonic and save_calibration
sweep_save(t, ok) ==
    /\ autotune_pc[t] \in {"save", "save_auto"}
    /\ IF ok THEN UNCHANGED healthVars ELSE record_esp_failure
    /\ SweepTo(t, IF autotune_pc[t] = "save"
                  THEN "restore_speed" ELSE "restore_speed_auto")

\* the finally block: the /set?speed= of the previous speed; a failure
\* here is logged and ends the restoring
sweep_restore_speed(t, ok) ==
    /\ autotune_pc[t] \in {"restore_speed", "restore_speed_auto"}
    /\ UNCHANGED healthVars
    /\ SweepTo(t, IF ~ok THEN "clear"
                  ELSE IF autotune_pc[t] = "restore_speed"
                  THEN "restore_read" ELSE "restore_auto")

\* the finally block: the reading and the /toggle that put the device
\* back in automatic mode
sweep_restore_auto(t, ok) ==
    /\ autotune_pc[t] = "restore_auto"
    /\ UNCHANGED healthVars
    /\ SweepTo(t, IF ok THEN "restore_read" ELSE "clear")

\* an exception of the last reading that leaves the thread
sweep_restore_read_Escapes(t, ok) ==
    /\ autotune_pc[t] = "restore_read"
    /\ autotune_pc' = [autotune_pc EXCEPT ![t] = IF ok THEN "clear" ELSE "none"]
    /\ last_esp' = IF ok THEN Some(device) ELSE last_esp
    /\ UNCHANGED <<device, exited, cycle_pc, cycle, prev_cycle, last_weather,
                   last_weather_fetch_ts, fail_safe_mode, noteVars>>
    /\ UNCHANGED <<mainVars, autotune_in_progress, refresh_in_progress,
                   refresh_workers, manualVars>>
    /\ UNCHANGED <<now, fanVars, healthVars, aiVars, calVars, filterVars,
                   dmVars, lockVars, cmdVars, geoVars>>

\* the finally block: the reading kept in last_esp
sweep_restore_read(t, ok) ==
    /\ autotune_pc[t] = "restore_read"
    /\ autotune_pc' = [autotune_pc EXCEPT ![t] = "clear"]
    /\ last_esp' = IF ok THEN Some(device) ELSE last_esp
    /\ UNCHANGED <<device, exited, cycle_pc, cycle, prev_cycle, last_weather,
                   last_weather_fetch_ts, fail_safe_mode, noteVars>>
    /\ UNCHANGED <<mainVars, autotune_in_progress, refresh_in_progress,
                   refresh_workers, manualVars>>
    /\ UNCHANGED <<now, fanVars, healthVars, aiVars, calVars, filterVars,
                   dmVars, lockVars, cmdVars, geoVars>>

\* the finally block after the restoring: the flag is cleared
sweep_clear(t) ==
    /\ autotune_pc[t] = "clear"
    /\ autotune_in_progress' = FALSE
    /\ autotune_pc' = [autotune_pc EXCEPT ![t] = "ra_entry"]
    /\ UNCHANGED <<mainVars, refresh_in_progress, refresh_workers, manualVars>>
    /\ UNCHANGED <<now, fanVars, healthVars, aiVars, calVars, filterVars,
                   restVars>>

PendingAfterRequest_KeepFirst(pending, speed) ==
    IF pending = None THEN Some(speed) ELSE pending

\* the slot after an accepted request
PendingAfterRequest(pending, speed) == Some(speed)

\* _manual_speed_changed, the slider; requests are numbered in the order in
\* which they are accepted, last_request is the latest of them, and a
\* request found in the slot by the next one is superseded
manual_speed_changed(value) ==
    LET speed == clamp(value, 0, 100)
    IN  /\ MainIdle
        /\ IF ai_auto_var
           THEN UNCHANGED manualVars
           ELSE /\ last_request.id < MaxRequests
                /\ manual_pending_speed' =
                      PendingAfterRequest(manual_pending_speed, speed)
                /\ last_request' = [id |-> last_request.id + 1,
                                    speed |-> speed]
                /\ pending_id' = Some(last_request.id + 1)
                /\ superseded' =
                      (IF manual_pending_speed = None
                       THEN superseded
                       ELSE superseded \cup {Val(pending_id)})
                /\ manual_sender_running' = TRUE
                /\ manual_pc' =
                      (IF manual_sender_running THEN manual_pc ELSE "take")
                /\ UNCHANGED <<manual_taken, manual_sent>>
        /\ UNCHANGED <<mainVars, refreshVars>>
        /\ UNCHANGED <<now, fanVars, healthVars, aiVars, calVars, filterVars,
                   restVars>>

\* _manual_send_worker, the first block under manual_state_lock
manual_take ==
    /\ manual_pc = "take"
    /\ manual_pending_speed' = None
    /\ pending_id' = None
    /\ IF manual_pending_speed = None
       THEN /\ manual_pc' = "check"
            /\ manual_taken' = None
       ELSE /\ manual_pc' = "send"
            /\ manual_taken' = Some([speed |-> Val(manual_pending_speed),
                                     id |-> Val(pending_id),
                                     latest |-> last_request])
    /\ UNCHANGED <<manual_sender_running, last_request, superseded,
                   manual_sent>>
    /\ UNCHANGED <<mainVars, refreshVars>>
    /\ UNCHANGED <<now, fanVars, healthVars, aiVars, calVars, filterVars,
                   restVars>>

\* the second block returning whether or not a value has arrived
manual_check_ReturnsAlways ==
    /\ manual_pc = "check"
    /\ manual_sender_running' = FALSE
    /\ manual_pc' = "none"
    /\ UNCHANGED <<manual_pending_speed, manual_taken, last_request,
                   pending_id, superseded, manual_sent>>
    /\ UNCHANGED <<mainVars, refreshVars>>
    /\ UNCHANGED <<now, fanVars, healthVars, aiVars, calVars, filterVars,
                   restVars>>

\* the second block clearing the flag whether or not the worker returns
manual_check_ClearsAlways ==
    /\ manual_pc = "check"
    /\ manual_sender_running' = FALSE
    /\ manual_pc' = IF manual_pending_speed = None THEN "none" ELSE "take"
    /\ UNCHANGED <<manual_pending_speed, manual_taken, last_request,
                   pending_id, superseded, manual_sent>>
    /\ UNCHANGED <<mainVars, refreshVars>>
    /\ UNCHANGED <<now, fanVars, healthVars, aiVars, calVars, filterVars,
                   restVars>>

\* _manual_send_worker, the second block under manual_state_lock
manual_check ==
    /\ manual_pc = "check"
    /\ IF manual_pending_speed = None
       THEN /\ manual_sender_running' = FALSE
            /\ manual_pc' = "none"
       ELSE /\ manual_pc' = "take"
            /\ UNCHANGED manual_sender_running
    /\ UNCHANGED <<manual_pending_speed, manual_taken, last_request,
                   pending_id, superseded, manual_sent>>
    /\ UNCHANGED <<mainVars, refreshVars>>
    /\ UNCHANGED <<now, fanVars, healthVars, aiVars, calVars, filterVars,
                   restVars>>

\* _send_manual_speed: the /set command goes out, or an earlier request of
\* the exchange raises and nothing is sent
send_manual_speed(sent) ==
    /\ manual_pc = "send"
    /\ manual_pc' = "take"
    /\ manual_sent' = (IF sent THEN manual_sent \cup {Val(manual_taken)}
                               ELSE manual_sent)
    /\ UNCHANGED <<manual_pending_speed, manual_sender_running, manual_taken,
                   last_request, pending_id, superseded>>
    /\ UNCHANGED <<mainVars, refreshVars>>
    /\ UNCHANGED <<now, fanVars, healthVars, aiVars, calVars, filterVars,
                   restVars>>

\* _on_ai_mode_toggle, after the checkbox has flipped ai_auto_var; switched
\* off, it starts _force_manual_mode, which acts on the device
on_ai_mode_toggle ==
    /\ MainIdle
    /\ ai_auto_var' = ~ai_auto_var
    /\ IF ai_auto_var'
       THEN /\ reset_ai_state
            /\ fail_safe_mode' = FALSE
            /\ manual_pending_speed' = None
            /\ pending_id' = None
            /\ main_pc' = MainAfter(refresh_async_entry)
       ELSE UNCHANGED <<fanVars, fail_safe_mode, manual_pending_speed,
                        pending_id, main_pc>>
    /\ UNCHANGED <<shutdown_event, refreshVars, manual_sender_running,
                   manual_pc, manual_taken, last_request, superseded,
                   manual_sent>>
    /\ UNCHANGED <<device, exited, cycle_pc, cycle, prev_cycle, last_esp,
                   last_weather, last_weather_fetch_ts, noteVars>>
    /\ UNCHANGED <<now, healthVars, aiVars, calVars, filterVars, dmVars, lockVars, cmdVars, geoVars>>

\* _on_close: the main loop ends with it
on_close(ok) ==
    /\ MainIdle
    /\ shutdown_event' = TRUE
    /\ flush(ok)
    /\ UNCHANGED <<ai_auto_var, main_pc, refreshVars, manualVars>>
    /\ UNCHANGED <<now, fanVars, healthVars, aiVars, calVars, restVars>>

-----------------------------------------------------------------------------
(* App: one refresh cycle, step by step.  The worker thread runs           *)
(* _refresh_worker, one step per call it makes to the device, the data     *)
(* API, the AIController, the FanController and the FilterTracker.  cycle  *)
(* holds the worker's locals and what the cycle has done so far,           *)
(* prev_cycle the same of the cycle before it.  device is the purifier as  *)
(* the ESP32 holds it; a snapshot is the weather and air data of one fetch *)
(* (last_weather and last_air are assigned together and are one field      *)
(* here), with the room sensors' values, which stay the same.              *)

WEATHER_REFRESH_INTERVAL_SECONDS == 240

\* config.control_profile of the cycles
CycleProfile == "balanced"

WeatherContextKeys == {"room_temp", "outside_temp", "room_humidity",
                       "outside_humidity", "weather_desc", "wind_speed"}

PollutionContextKeys == {"aqi", "pm2_5", "pm10", "no2", "o3"}

\* the context dictionaries decide_fan_target, temperature_advice and
\* pollution_comment build from esp, weather and air
fan_context(snapshot) == [key \in ContextKeys |-> snapshot[key]]

weather_context(snapshot) == [key \in WeatherContextKeys |-> snapshot[key]]

pollution_context(snapshot) ==
    [key \in PollutionContextKeys |-> snapshot[key]]

\* curve_baseline_speed for the balanced profile without a calibration: its
\* floating-point curve gives 41 at AQI 2 and 50 at AQI 3 for the
\* pollutant values of the snapshot of the specification
curve_baseline_speed(snapshot) == IF snapshot.aqi >= 30 THEN 50 ELSE 41

NoCycle ==
    [esp |-> "none", weather |-> "none", advisory |-> "none",
     advice |-> "none", pollution |-> "none", pushed |-> "none",
     local_fail_safe |-> FALSE, reading |-> None, snapshot |-> None,
     ai_target |-> None, applied_speed |-> None, done |-> FALSE]

\* what is kept of a cycle once the next has begun
CycleSummary(c) ==
    [esp |-> c.esp, weather |-> c.weather, advisory |-> c.advisory]

\* the state after App.__init__, whose closing _schedule_refresh() has
\* started the thread of the first cycle
CycleInit ==
    /\ device = [speed |-> 41, auto |-> TRUE]
    /\ exited = FALSE
    /\ cycle_pc = "none"
    /\ cycle = NoCycle
    /\ prev_cycle = CycleSummary(NoCycle)
    /\ last_esp = None
    /\ last_weather = None
    /\ last_weather_fetch_ts = 0
    /\ fail_safe_mode = FALSE
    /\ cached_advice = None
    /\ last_advice_ts = 0
    /\ last_weather_context = None
    /\ cached_pollution_comment = None
    /\ last_pollution_comment_ts = 0
    /\ last_pollution_context = None

\* a note is the canned sentence of the fallback rules or the advisory's
\* reply
CannedNote == "canned"

ReplyNote == "reply"

\* the end of the script: mainloop() has returned and the interpreter exits,
\* which ends the daemon threads wherever they are
process_exit ==
    /\ shutdown_event
    /\ ~exited
    /\ exited' = TRUE
    /\ UNCHANGED <<device, cycle_pc, cycle, prev_cycle, last_esp,
                   last_weather, last_weather_fetch_ts, fail_safe_mode,
                   noteVars>>
    /\ UNCHANGED <<now, fanVars, healthVars, aiVars, calVars, filterVars,
                   appVars, dmVars, lockVars, cmdVars, geoVars>>

\* the worker thread is at the step pc
WorkerAt(pc) == cycle_pc = pc /\ ~exited

\* the first statements of _refresh_worker, in the thread refresh_async
\* has started
worker_begin ==
    /\ cycle_pc = "none"
    /\ refresh_workers > 0
    /\ ~exited
    /\ cycle_pc' = "esp"
    /\ cycle' = NoCycle
    /\ prev_cycle' = CycleSummary(cycle)
    /\ UNCHANGED <<device, exited, last_esp, last_weather,
                   last_weather_fetch_ts, fail_safe_mode, noteVars>>
    /\ UNCHANGED <<now, fanVars, healthVars, aiVars, calVars, filterVars,
                   appVars, dmVars, lockVars, cmdVars, geoVars>>

\* a cycle that goes on to the weather after a failed read
worker_read_esp_Continues(ok) ==
    /\ WorkerAt("esp")
    /\ IF ok
       THEN /\ last_esp' = Some(device)
            /\ record_esp_success
            /\ cycle' = [cycle EXCEPT !.esp = "ok", !.reading = Some(device)]
       ELSE /\ record_esp_failure
            /\ cycle' = [cycle EXCEPT !.esp = "failed"]
            /\ UNCHANGED last_esp
    /\ cycle_pc' = "weather"
    /\ UNCHANGED <<last_weather, last_weather_fetch_ts, fail_safe_mode,
                   noteVars>>
    /\ UNCHANGED <<now, fanVars, aiVars, filterVars>>
    /\ UNCHANGED <<device, exited, prev_cycle>>
    /\ UNCHANGED <<appVars, calVars, dmVars, lockVars, cmdVars, geoVars>>

\* read_esp_state and the record of its outcome
worker_read_esp(ok) ==
    /\ WorkerAt("esp")
    /\ IF ok
       THEN /\ last_esp' = Some(device)
            /\ record_esp_success
            /\ cycle' = [cycle EXCEPT !.esp = "ok", !.reading = Some(device)]
            /\ cycle_pc' = "weather"
       ELSE /\ record_esp_failure
            /\ cycle' = [cycle EXCEPT !.esp = "failed"]
            /\ cycle_pc' = "finally"
            /\ UNCHANGED last_esp
    /\ UNCHANGED <<last_weather, last_weather_fetch_ts, fail_safe_mode,
                   noteVars>>
    /\ UNCHANGED <<now, fanVars, aiVars, filterVars>>
    /\ UNCHANGED <<device, exited, prev_cycle>>
    /\ UNCHANGED <<appVars, calVars, dmVars, lockVars, cmdVars, geoVars>>

\* should_fetch_weather
ShouldFetchWeather(snapshot, t, last_ts) ==
    \/ snapshot = None
    \/ (t - last_ts) >= WEATHER_REFRESH_INTERVAL_SECONDS

\* the weather step: read_openweather when a fetch is due, fetched being
\* the snapshot it returns or None when it raises
worker_weather(fetched) ==
    /\ WorkerAt("weather")
    /\ IF ~ShouldFetchWeather(last_weather, now, last_weather_fetch_ts)
       THEN /\ cycle' = [cycle EXCEPT !.weather = "cached",
                                      !.snapshot = last_weather]
            /\ cycle_pc' = "control"
            /\ UNCHANGED <<last_weather, last_weather_fetch_ts,
                           fail_safe_mode, healthVars>>
       ELSE IF fetched # None
       THEN /\ last_weather' = fetched
            /\ last_weather_fetch_ts' = now
            /\ record_api_success
            /\ fail_safe_mode' = FALSE
            /\ cycle' = [cycle EXCEPT !.weather = "ok",
                                      !.snapshot = fetched]
            /\ cycle_pc' = "control"
       ELSE /\ fail_safe_mode' = TRUE
            /\ record_api_failure
            /\ cycle' = [cycle EXCEPT !.weather = "failed",
                                      !.snapshot = last_weather,
                                      !.local_fail_safe = TRUE]
            /\ cycle_pc' = IF last_weather = None THEN "finally"
                           ELSE "control"
            /\ UNCHANGED <<last_weather, last_weather_fetch_ts>>
    /\ UNCHANGED <<last_esp, noteVars>>
    /\ UNCHANGED <<now, fanVars, aiVars, filterVars>>
    /\ UNCHANGED <<device, exited, prev_cycle>>
    /\ UNCHANGED <<appVars, calVars, dmVars, lockVars, cmdVars, geoVars>>

\* the branch on ai_auto_var: decide_fan_target in AI mode, reset_ai_state
\* otherwise
worker_control(reply) ==
    /\ WorkerAt("control")
    /\ IF ai_auto_var
       THEN LET snapshot == Val(cycle.snapshot)
            IN  /\ decide_fan_target(CycleProfile, fan_context(snapshot),
                                     curve_baseline_speed(snapshot),
                                     cycle.local_fail_safe, reply)
                /\ cycle' = [cycle EXCEPT
                       !.advisory = IF ai_call'.forced THEN "forced"
                                    ELSE IF ~ai_call'.queried THEN "cached"
                                    ELSE IF ai_call'.failed THEN "failed"
                                    ELSE "ok",
                       !.ai_target = Some(ai_call'.result),
                       !.local_fail_safe = cycle.local_fail_safe
                                               \/ ai_call'.failed]
                /\ fail_safe_mode' = (fail_safe_mode \/ ai_call'.failed)
                /\ cycle_pc' = "compute"
                /\ UNCHANGED fanVars
       ELSE /\ reset_ai_state
            /\ cycle_pc' = "advice"
            /\ UNCHANGED <<cycle, fail_safe_mode, aiVars, healthVars>>
    /\ UNCHANGED <<last_esp, last_weather, last_weather_fetch_ts, noteVars>>
    /\ UNCHANGED <<now, filterVars>>
    /\ UNCHANGED <<device, exited, prev_cycle>>
    /\ UNCHANGED <<appVars, calVars, dmVars, lockVars, cmdVars, geoVars>>

\* compute_applied_speed with the duty the device reported
worker_compute ==
    /\ WorkerAt("compute")
    /\ compute_applied_speed(Val(cycle.ai_target), Val(cycle.reading).speed,
                             CycleProfile)
    /\ cycle' = [cycle EXCEPT !.applied_speed = ai_applied_speed']
    /\ cycle_pc' = "should_push"
    /\ UNCHANGED <<last_esp, last_weather, last_weather_fetch_ts,
                   fail_safe_mode, noteVars>>
    /\ UNCHANGED <<healthVars, aiVars, filterVars>>
    /\ UNCHANGED <<device, exited, prev_cycle>>
    /\ UNCHANGED <<appVars, calVars, dmVars, lockVars, cmdVars, geoVars>>

worker_should_push ==
    /\ WorkerAt("should_push")
    /\ should_push(Val(cycle.reading).speed)
    /\ cycle_pc' = IF ShouldPushResult(Val(cycle.reading).speed)
                   THEN "push" ELSE "advice"
    /\ UNCHANGED <<cycle, last_esp, last_weather, last_weather_fetch_ts,
                   fail_safe_mode, noteVars>>
    /\ UNCHANGED <<healthVars, aiVars, filterVars>>
    /\ UNCHANGED <<device, exited, prev_cycle>>
    /\ UNCHANGED <<appVars, calVars, dmVars, lockVars, cmdVars, geoVars>>

PushOutcomes == {"ok", "set_failed"}

\* _ensure_manual_and_set_speed and the record of its outcome: the /toggle
\* command when the device reported auto, the /set command, mark_push
worker_push(outcome) ==
    LET esp     == Val(cycle.reading)
        toggled == IF esp.auto THEN [device EXCEPT !.auto = ~device.auto]
                   ELSE device
        confirm == [toggled EXCEPT !.speed = Val(cycle.applied_speed)]
    IN  /\ WorkerAt("push")
        /\ IF outcome = "ok"
           THEN /\ device' = confirm
                /\ mark_push
                /\ record_esp_success
                /\ last_esp' = Some(confirm)
                /\ cycle' = [cycle EXCEPT !.reading = Some(confirm),
                                          !.pushed = "ok"]
           ELSE /\ device' = toggled
                /\ record_esp_failure
                /\ cycle' = [cycle EXCEPT !.pushed = "failed"]
                /\ UNCHANGED <<fanVars, last_esp>>
        /\ cycle_pc' = "advice"
        /\ UNCHANGED <<last_weather, last_weather_fetch_ts, fail_safe_mode,
                       noteVars>>
        /\ UNCHANGED <<now, aiVars, filterVars>>
        /\ UNCHANGED <<exited, prev_cycle>>
        /\ UNCHANGED <<appVars, calVars, dmVars, lockVars, cmdVars, geoVars>>

\* whether a note's except branch is taken: ollama_generate raised or
\* returned the empty string
NoteFailed(reply) == reply.kind = "error" \/ reply.empty

\* what temperature_advice and pollution_comment did: the forced fallback,
\* the cache, a request that succeeded or one that failed
NoteOutcome(cached, last_ts, last_context, context, force_fail_safe, reply) ==
    IF force_fail_safe THEN "forced"
    ELSE IF ~(cached = None
              \/ should_query_llm(now, last_ts, last_context, context))
    THEN "cached"
    ELSE IF NoteFailed(reply) THEN "failed"
    ELSE "ok"

\* a variant in which a forced note keeps what is cached
NoteText_KeepCached(outcome, cached) ==
    IF outcome = "failed" \/ (outcome = "forced" /\ cached = None)
    THEN Some(CannedNote)
    ELSE IF outcome = "ok" THEN Some(ReplyNote)
    ELSE cached

\* the text they cache, None being left as it is
NoteText(outcome, cached) ==
    IF outcome \in {"forced", "failed"} THEN Some(CannedNote)
    ELSE IF outcome = "ok" THEN Some(ReplyNote)
    ELSE cached

\* temperature_advice(config, esp, weather, force_fail_safe)
temperature_advice(context, force_fail_safe, reply) ==
    LET outcome == NoteOutcome(cached_advice, last_advice_ts,
                               last_weather_context, context,
                               force_fail_safe, reply)
        queried == outcome \in {"ok", "failed"}
    IN  /\ cached_advice' = NoteText(outcome, cached_advice)
        /\ last_advice_ts' = IF queried THEN now ELSE last_advice_ts
        /\ last_weather_context' = IF queried THEN Some(context)
                                   ELSE last_weather_context
        /\ IF outcome = "ok" THEN record_ai_success
           ELSE IF outcome = "failed" THEN record_ai_failure
           ELSE UNCHANGED healthVars
        /\ cycle' = [cycle EXCEPT !.advice = outcome]

\* pollution_comment(config, air, force_fail_safe)
pollution_comment(context, force_fail_safe, reply) ==
    LET outcome == NoteOutcome(cached_pollution_comment,
                               last_pollution_comment_ts,
                               last_pollution_context, context,
                               force_fail_safe, reply)
        queried == outcome \in {"ok", "failed"}
    IN  /\ cached_pollution_comment' =
              NoteText(outcome, cached_pollution_comment)
        /\ last_pollution_comment_ts' =
              IF queried THEN now ELSE last_pollution_comment_ts
        /\ last_pollution_context' = IF queried THEN Some(context)
                                     ELSE last_pollution_context
        /\ IF outcome = "ok" THEN record_ai_success
           ELSE IF outcome = "failed" THEN record_ai_failure
           ELSE UNCHANGED healthVars
        /\ cycle' = [cycle EXCEPT !.pollution = outcome]

worker_advice(reply) ==
    /\ WorkerAt("advice")
    /\ temperature_advice(weather_context(Val(cycle.snapshot)),
                          cycle.local_fail_safe, reply)
    /\ cycle_pc' = "pollution"
    /\ UNCHANGED <<cached_pollution_comment, last_pollution_comment_ts,
                   last_pollution_context>>
    /\ UNCHANGED <<last_esp, last_weather, last_weather_fetch_ts,
                   fail_safe_mode>>
    /\ UNCHANGED <<now, fanVars, aiVars, filterVars>>
    /\ UNCHANGED <<device, exited, prev_cycle>>
    /\ UNCHANGED <<appVars, calVars, dmVars, lockVars, cmdVars, geoVars>>

worker_pollution(reply) ==
    /\ WorkerAt("pollution")
    /\ pollution_comment(pollution_context(Val(cycle.snapshot)),
                         cycle.local_fail_safe, reply)
    /\ cycle_pc' = "filter"
    /\ UNCHANGED <<cached_advice, last_advice_ts, last_weather_context>>
    /\ UNCHANGED <<last_esp, last_weather, last_weather_fetch_ts,
                   fail_safe_mode>>
    /\ UNCHANGED <<now, fanVars, aiVars, filterVars>>
    /\ UNCHANGED <<device, exited, prev_cycle>>
    /\ UNCHANGED <<appVars, calVars, dmVars, lockVars, cmdVars, geoVars>>

\* update_runtime with the duty of esp, then the log row and the UI update
worker_filter(ok) ==
    /\ WorkerAt("filter")
    /\ update_runtime(Val(cycle.reading).speed, ok)
    /\ cycle' = [cycle EXCEPT !.done = TRUE]
    /\ cycle_pc' = "finally"
    /\ UNCHANGED <<last_esp, last_weather, last_weather_fetch_ts,
                   fail_safe_mode, noteVars>>
    /\ UNCHANGED <<now, fanVars, healthVars, aiVars>>
    /\ UNCHANGED <<device, exited, prev_cycle>>
    /\ UNCHANGED <<appVars, calVars, dmVars, lockVars, cmdVars, geoVars>>

\* the positions of the worker inside the try block
TryPositions == {"esp", "weather", "control", "compute", "should_push",
                 "push", "advice", "pollution", "filter"}

\* an exception none of the inner handlers catches, raised at any position
\* of the try block: the handler of _refresh_worker logs it and sets the
\* status line
worker_raise ==
    /\ cycle_pc \in TryPositions
    /\ ~exited
    /\ cycle_pc' = "finally"
    /\ UNCHANGED <<device, exited, cycle, prev_cycle, last_esp,
                   last_weather, last_weather_fetch_ts, fail_safe_mode,
                   noteVars>>
    /\ UNCHANGED <<now, fanVars, healthVars, aiVars, calVars, filterVars,
                   appVars, dmVars, lockVars, cmdVars, geoVars>>

\* a finally block that leaves the flag set
worker_finally_KeepsFlag ==
    /\ WorkerAt("finally")
    /\ refresh_workers' = refresh_workers - 1
    /\ cycle_pc' = "none"
    /\ UNCHANGED <<mainVars, autotune_in_progress, refresh_in_progress,
                   autotune_pc, manualVars>>
    /\ UNCHANGED <<device, exited, cycle, prev_cycle, last_esp,
                   last_weather, last_weather_fetch_ts, fail_safe_mode,
                   noteVars>>
    /\ UNCHANGED <<now, fanVars, healthVars, aiVars, calVars, filterVars,
                   dmVars, lockVars, cmdVars, geoVars>>

\* the finally block of _refresh_worker
worker_finally ==
    /\ WorkerAt("finally")
    /\ refresh_in_progress' = FALSE
    /\ refresh_workers' = refresh_workers - 1
    /\ cycle_pc' = "none"
    /\ UNCHANGED <<mainVars, autotune_in_progress, autotune_pc, manualVars>>
    /\ UNCHANGED <<device, exited, cycle, prev_cycle, last_esp,
                   last_weather, last_weather_fetch_ts, fail_safe_mode,
                   noteVars>>
    /\ UNCHANGED <<now, fanVars, healthVars, aiVars, calVars, filterVars,
                   dmVars, lockVars, cmdVars, geoVars>>

-----------------------------------------------------------------------------
(* Locks.  Every lock of the two programs is a threading.Lock, which is    *)
(* not reentrant: acquire blocks while any thread, the caller included,    *)
(* holds it.  The desktop application and the web server are two           *)
(* processes, each with its own FilterTracker and DataManager, so a lock   *)
(* is named by its process and its owner.  A region is what a thread does  *)
(* to the locks from entering a "with" block of the code to leaving it,    *)
(* the calls made inside the block included; between regions a thread      *)
(* holds no lock.                                                          *)

Lock(process, owner) == <<process, owner>>

Acquire(lock) == [do |-> "acquire", lock |-> lock]

Release(lock) == [do |-> "release", lock |-> lock]

\* "with lock:" around a body that does inner
With(lock, inner) == <<Acquire(lock)>> \o inner \o <<Release(lock)>>

\* log_csv_row appends the row under the lock
DataLoggerLocking == With(Lock("app", "data_logger"), <<>>)

\* record_*_success, record_*_failure and status; the logger is called
\* after the block
HealthMonitorLocking == With(Lock("app", "health"), <<>>)

\* get_calibration (also from pwm_for_demand) and save_calibration
CalibrationManagerLocking == With(Lock("app", "calibration"), <<>>)

\* a FilterTracker region that calls back into the web backend
FilterTrackerLocking_CallsBackend(process) ==
    With(Lock(process, "filter"), With(Lock(process, "backend"), <<>>))

\* flush, set_replacement_interval, update_runtime, reset and get_state;
\* _persist_locked writes the file inside the block
FilterTrackerLocking(process) == With(Lock(process, "filter"), <<>>)

\* read_openweather reads and writes geo_cache in two separate blocks
GeoCacheLocking(process) == With(Lock(process, "geo_cache"), <<>>)

\* reset_ai_state, compute_applied_speed, should_push, mark_push and
\* manual_send_allowed
FanControllerLocking == With(Lock("app", "fan"), <<>>)

\* refresh_async and the finally block of _refresh_worker
RefreshLocking == With(Lock("app", "refresh"), <<>>)

\* the manual-send slot
ManualStateLocking == With(Lock("app", "manual_state"), <<>>)

\* the blocks of Backend that read or write its fields
BackendLocking == With(Lock("web", "backend"), <<>>)

\* Backend.current_config calls set_replacement_interval inside its block
\* when the configured interval has changed
current_config_locking(interval_changed) ==
    With(Lock("web", "backend"),
         IF interval_changed THEN FilterTrackerLocking("web") ELSE <<>>)

AppRegions ==
    {DataLoggerLocking, HealthMonitorLocking, CalibrationManagerLocking,
     FilterTrackerLocking("app"), GeoCacheLocking("app"),
     FanControllerLocking, RefreshLocking, ManualStateLocking}

WebRegions ==
    {BackendLocking, current_config_locking(TRUE),
     current_config_locking(FALSE), FilterTrackerLocking("web"),
     GeoCacheLocking("web")}

\* the main thread of the desktop application and the workers it starts
AppThreads == {"main", "refresh_worker", "manual_send_worker"}

\* the request threads of the ThreadingHTTPServer
WebThreads == {"handler_1", "handler_2"}

Threads == AppThreads \cup WebThreads

Regions(t) == IF t \in AppThreads THEN AppRegions ELSE WebRegions

LocksInit ==
    /\ thread_todo = [t \in Threads |-> <<>>]
    /\ held = [t \in Threads |-> <<>>]

Holds(t, lock) == \E i \in 1..Len(held[t]) : held[t][i] = lock

Locked(lock) == \E t \in Threads : Holds(t, lock)

\* the thread enters a region
thread_enter(t, region) ==
    /\ thread_todo[t] = <<>>
    /\ thread_todo' = [thread_todo EXCEPT ![t] = region]
    /\ UNCHANGED held

\* Lock.acquire, on entering a "with" block
thread_acquire(t) ==
    /\ thread_todo[t] # <<>>
    /\ Head(thread_todo[t]).do = "acquire"
    /\ ~Locked(Head(thread_todo[t]).lock)
    /\ held' = [held EXCEPT ![t] = Append(@, Head(thread_todo[t]).lock)]
    /\ thread_todo' = [thread_todo EXCEPT ![t] = Tail(@)]

\* Lock.release, on leaving the block
thread_release(t) ==
    /\ thread_todo[t] # <<>>
    /\ Head(thread_todo[t]).do = "release"
    /\ held' = [held EXCEPT ![t] = SubSeq(@, 1, Len(@) - 1)]
    /\ thread_todo' = [thread_todo EXCEPT ![t] = Tail(@)]

-----------------------------------------------------------------------------
(* DataManager.send_esp_command and read_esp_state.  Each request of a     *)
(* command is a call of _request with three attempts; cmd records the      *)
(* command: its path, the requests issued so far, the outcomes of the      *)
(* attempts of the JSON request, the body each finished request returned   *)
(* and how the command ended.  A JSON body is an object, a list of pairs   *)
(* (the empty list included) or anything else JSON allows.                 *)

JsonBodies == {"object", "pairs", "scalar"}

CommandAttempts == 3

dict_converts_Always(body) == TRUE

\* dict(body) returns a dict, where it raises otherwise
dict_converts(body) == body \in {"object", "pairs"}

Issued(kind, path) == [kind |-> kind, path |-> path]

CommandIdle ==
    [pc |-> "idle", path |-> "", sent |-> <<>>, json_outcomes |-> <<>>,
     bodies |-> <<>>, result |-> "none"]

CommandInit == cmd = CommandIdle

\* the command is at the phase and its request has returned a body
CommandReturned(phase) == cmd.pc = phase /\ req.pc = "returned"

\* the command is at the phase and its request has raised
CommandRaised(phase) == cmd.pc = phase /\ req.pc = "raised"

\* the next request of the command, after a request that got the bodies
command_request(phase, kind, path, got) ==
    /\ request_start(kind = "json", CommandAttempts)
    /\ cmd' = [cmd EXCEPT !.pc = phase,
                          !.sent = Append(@, Issued(kind, path)),
                          !.bodies = @ \o got,
                          !.json_outcomes = IF cmd.pc = "json"
                                            THEN req.outcomes ELSE @]

\* the return of the command
command_return(result, got) ==
    /\ cmd' = [cmd EXCEPT !.pc = "returned", !.result = result,
                          !.bodies = @ \o got,
                          !.json_outcomes = IF cmd.pc = "json"
                                            THEN req.outcomes ELSE @]
    /\ UNCHANGED req

\* the exception of the last request, or of dict, leaves the command
command_raise(got) ==
    /\ cmd' = [cmd EXCEPT !.pc = "raised", !.result = "raised",
                          !.bodies = @ \o got]
    /\ UNCHANGED req

\* send_esp_command: the JSON request to the endpoint
send_esp_command(path) ==
    /\ cmd.pc \in {"idle", "returned", "raised"}
    /\ req.pc # "loop"
    /\ request_start(TRUE, CommandAttempts)
    /\ cmd' = [CommandIdle EXCEPT !.pc = "json", !.path = path,
                                  !.sent = <<Issued("json", path)>>]

\* the JSON request has returned: dict(body) is the acknowledgment, or
\* raises into the except clause
command_json_returned(body) ==
    /\ CommandReturned("json")
    /\ IF dict_converts(body)
       THEN command_return("ack", <<body>>)
       ELSE command_request("text", "text", cmd.path, <<body>>)

\* the JSON request has raised: the except clause sends the text request
command_json_raised ==
    /\ CommandRaised("json")
    /\ command_request("text", "text", cmd.path, <<>>)

\* the text request has returned: read_esp_state asks for /state
command_text_returned ==
    /\ CommandReturned("text")
    /\ command_request("state", "json", "/state", <<>>)

\* read_esp_state: dict of the body of /state, or /data after any failure
command_state_returned(body) ==
    /\ CommandReturned("state")
    /\ IF dict_converts(body)
       THEN command_return("state", <<body>>)
       ELSE command_request("data", "json", "/data", <<body>>)

command_state_raised ==
    /\ CommandRaised("state")
    /\ command_request("data", "json", "/data", <<>>)

\* read_esp_state: dict of the body of /data, whose failure is not caught
command_data_returned(body) ==
    /\ CommandReturned("data")
    /\ IF dict_converts(body)
       THEN command_return("state", <<body>>)
       ELSE command_raise(<<body>>)

\* the text request or the request of /data has raised
command_failed ==
    /\ CommandRaised("text") \/ CommandRaised("data")
    /\ command_raise(<<>>)

-----------------------------------------------------------------------------
(* DataManager.read_openweather.  geo_cache maps a city key to its         *)
(* coordinates; the model keeps the set of keys it holds.  A call reads    *)
(* the cache under geo_cache_lock, sends the geocode request outside the   *)
(* lock when the key is missing, stores the coordinates under the lock     *)
(* and then fetches the weather and the air data.  The calls of the        *)
(* request threads of the web server run side by side.                     *)

Cities == {"Paris", " paris ", "Oslo"}

\* (city or "").strip().lower()
city_key(city) ==
    CASE city = "Paris" -> "paris"
      [] city = " paris " -> "paris"
      [] city = "Oslo" -> "oslo"

CityKeys == {city_key(city) : city \in Cities}

NoWeatherCall == [pc |-> "none", key |-> ""]

GeoInit ==
    /\ geo_cache = {}
    /\ weather_call = [t \in WebThreads |-> NoWeatherCall]
    /\ geocoded = [key \in CityKeys |-> 0]

\* the call, up to the end of the first block under geo_cache_lock
read_openweather(t, city) ==
    /\ weather_call[t].pc = "none"
    /\ weather_call' =
          [weather_call EXCEPT
              ![t] = [pc |-> IF city_key(city) \in geo_cache
                             THEN "fetch" ELSE "geocode",
                      key |-> city_key(city)]]
    /\ UNCHANGED <<geo_cache, geocoded>>

\* the geocode request: coordinates, or an exception or an empty list,
\* which end the call
weather_geocode(t, found) ==
    /\ weather_call[t].pc = "geocode"
    /\ geocoded' = [geocoded EXCEPT ![weather_call[t].key] = @ + 1]
    /\ weather_call' =
          [weather_call EXCEPT
              ![t] = IF found THEN [@ EXCEPT !.pc = "store"]
                              ELSE NoWeatherCall]
    /\ UNCHANGED geo_cache

\* the second block under geo_cache_lock
weather_store(t) ==
    /\ weather_call[t].pc = "store"
    /\ geo_cache' = geo_cache \cup {weather_call[t].key}
    /\ weather_call' = [weather_call EXCEPT ![t].pc = "fetch"]
    /\ UNCHANGED geocoded

\* the weather and air requests, and the return or the exception
weather_fetch(t) ==
    /\ weather_call[t].pc = "fetch"
    /\ weather_call' = [weather_call EXCEPT ![t] = NoWeatherCall]
    /\ UNCHANGED <<geo_cache, geocoded>>

-----------------------------------------------------------------------------
(* Specification of DataManager._request: calls with any max_attempts of   *)
(* the range, JSON or text, every attempt ending in any of its outcomes.   *)

RestInit ==
    DataManagerInit /\ CycleInit /\ LocksInit /\ CommandInit /\ GeoInit

RequestStart ==
    /\ req.pc # "loop"
    /\ \E expect_json \in BOOLEAN, max_attempts \in 0..MaxAttemptsBound :
          request_start(expect_json, max_attempts)
    /\ UNCHANGED <<now, fanVars, healthVars, aiVars, calVars, filterVars,
                   appVars, cycleVars,
                   lockVars, cmdVars, geoVars>>

RequestAttempt ==
    /\ \E outcome \in {"ok"} \cup ErrorKinds : request_attempt(outcome)
    /\ UNCHANGED <<now, fanVars, healthVars, aiVars, calVars, filterVars,
                   appVars, cycleVars,
                   lockVars, cmdVars, geoVars>>

RequestRaise ==
    /\ request_raise
    /\ UNCHANGED <<now, fanVars, healthVars, aiVars, calVars, filterVars,
                   appVars, cycleVars,
                   lockVars, cmdVars, geoVars>>

RequestNext ==
    \/ RequestStart
    \/ RequestAttempt
    \/ RequestRaise

RequestSpecInit ==
    /\ now = StartTime
    /\ FanInit
    /\ HealthInit
    /\ AiInit
    /\ CalInitNoFile
    /\ FilterInitNoFile
    /\ AppInit
    /\ RestInit

SpecRequest == RequestSpecInit /\ [][RequestNext]_vars

-----------------------------------------------------------------------------
(* Specification of the FanController: any sequence of its methods, with   *)
(* the clock advancing between calls                                       *)

FanTick ==
    /\ now < StartTime + MaxFanClock
    /\ now' = now + 1
    /\ UNCHANGED <<fanVars, healthVars, aiVars, calVars, filterVars,
                   appVars, restVars>>

FanCompute ==
    /\ \E t \in TargetSpeeds, c \in ReportedSpeeds, p \in ProfileNames :
           compute_applied_speed(t, c, p)
    /\ UNCHANGED <<healthVars, aiVars, calVars, filterVars, appVars, restVars>>

FanReset ==
    /\ reset_ai_state
    /\ UNCHANGED <<healthVars, aiVars, calVars, filterVars, appVars, restVars>>

FanShouldPush ==
    /\ \E c \in ReportedSpeeds : should_push(c)
    /\ UNCHANGED <<healthVars, aiVars, calVars, filterVars, appVars, restVars>>

FanMarkPush ==
    /\ mark_push
    /\ UNCHANGED <<healthVars, aiVars, calVars, filterVars, appVars, restVars>>

FanNext ==
    \/ FanCompute
    \/ FanReset
    \/ FanShouldPush
    \/ FanMarkPush
    \/ FanTick

FanSpecInit ==
    /\ now = StartTime
    /\ FanInit
    /\ HealthInit
    /\ AiInit
    /\ CalInitNoFile
    /\ FilterInitNoFile
    /\ AppInit
    /\ RestInit

SpecFan == FanSpecInit /\ [][FanNext]_vars

-----------------------------------------------------------------------------
(* Specification of the HealthMonitor: any sequence of record_* calls      *)

HealthEspSuccess ==
    /\ record_esp_success
    /\ UNCHANGED <<now, fanVars, aiVars, calVars, filterVars, appVars,
                   restVars>>

HealthEspFailure ==
    /\ esp_failures < MaxFailures
    /\ record_esp_failure
    /\ UNCHANGED <<now, fanVars, aiVars, calVars, filterVars, appVars,
                   restVars>>

HealthApiSuccess ==
    /\ record_api_success
    /\ UNCHANGED <<now, fanVars, aiVars, calVars, filterVars, appVars,
                   restVars>>

HealthApiFailure ==
    /\ api_failures < MaxFailures
    /\ record_api_failure
    /\ UNCHANGED <<now, fanVars, aiVars, calVars, filterVars, appVars,
                   restVars>>

HealthAiSuccess ==
    /\ record_ai_success
    /\ UNCHANGED <<now, fanVars, aiVars, calVars, filterVars, appVars,
                   restVars>>

HealthAiFailure ==
    /\ ai_failures < MaxFailures
    /\ record_ai_failure
    /\ UNCHANGED <<now, fanVars, aiVars, calVars, filterVars, appVars,
                   restVars>>

HealthNext ==
    \/ HealthEspSuccess
    \/ HealthEspFailure
    \/ HealthApiSuccess
    \/ HealthApiFailure
    \/ HealthAiSuccess
    \/ HealthAiFailure

HealthSpecInit ==
    /\ now = StartTime
    /\ FanInit
    /\ HealthInit
    /\ AiInit
    /\ CalInitNoFile
    /\ FilterInitNoFile
    /\ AppInit
    /\ RestInit

SpecHealth == HealthSpecInit /\ [][HealthNext]_vars

-----------------------------------------------------------------------------
(* Specification of the AIController: decide_fan_target called with any    *)
(* profile, context, baseline and advisory outcome, the clock advancing    *)
(* between calls                                                           *)

BaseContext ==
    [aqi |-> 20, pm2_5 |-> 100, pm10 |-> 200, no2 |-> 50, o3 |-> 50,
     room_temp |-> 220, outside_temp |-> 150, room_humidity |-> 400]

\* the base context and one with the AQI a category higher
ContextSamples == {BaseContext, [BaseContext EXCEPT !.aqi = 30]}

BaselineSamples == {2, 92}

ReplySamples ==
    {ReplyError, ReplyText(TRUE, None), ReplyText(FALSE, Some(150))}

ClockSteps == {119, 120, 180}

AiTick ==
    /\ \E d \in ClockSteps :
          /\ now + d <= StartTime + MaxAiClock
          /\ now' = now + d
    /\ UNCHANGED <<fanVars, healthVars, aiVars, calVars, filterVars,
                   appVars, restVars>>

AiDecide ==
    /\ ai_failures < MaxFailures
    /\ \E p \in ProfileNames, c \in ContextSamples, b \in BaselineSamples,
          r \in ReplySamples :
          decide_fan_target(p, c, b, FALSE, r)
    /\ UNCHANGED <<now, fanVars, calVars, filterVars, appVars, restVars>>

AiDecideForced ==
    /\ \E p \in ProfileNames, c \in ContextSamples, b \in BaselineSamples :
          decide_fan_target(p, c, b, TRUE, ReplyError)
    /\ UNCHANGED <<now, fanVars, calVars, filterVars, appVars, restVars>>

AiNext ==
    \/ AiTick
    \/ AiDecide
    \/ AiDecideForced

AiSpecInit ==
    /\ now = StartTime
    /\ FanInit
    /\ HealthInit
    /\ AiInit
    /\ CalInitNoFile
    /\ FilterInitNoFile
    /\ AppInit
    /\ RestInit

SpecAi == AiSpecInit /\ [][AiNext]_vars

-----------------------------------------------------------------------------
(* Specification of the CalibrationManager: constructed from any           *)
(* calibration file of the bounded family, then pwm_for_demand and the     *)
(* sweep fit of _run_autotune in any order                                 *)

OptPwm == {Some(20), Some(60), Some(100)}

OptRpm == {Some(0), Some(300), Some(1800)}

RawEntries ==
    [pwm : OptPwm, rpm : OptRpm] \cup {[pwm |-> None, rpm |-> None]}

RawSampleLists ==
    UNION {[1..n -> RawEntries] : n \in 1..MaxFileSamples}

\* the file of the worked example: three samples, spin-up 300, max 1800
ExampleFile ==
    [samples |-> <<[pwm |-> Some(20), rpm |-> Some(300)],
                   [pwm |-> Some(50), rpm |-> Some(900)],
                   [pwm |-> Some(100), rpm |-> Some(1800)]>>,
     spin_up_pwm |-> None,
     spin_up_rpm |-> Some(300),
     max_rpm |-> Some(1800)]

CalibrationFiles ==
    [samples : RawSampleLists,
     spin_up_pwm : {None},
     spin_up_rpm : {None, Some(900)},
     max_rpm : {None, Some(300), Some(900)}] \cup {ExampleFile}

\* sweep_points of _run_autotune
SweepPoints == <<20, 30, 40, 50, 60, 70, 80, 90, 100>>

\* averaged RPM readings of a sweep: a fan that spins from 20 %, one with a
\* dead zone and a plateau, one that never reports a speed, and one with a
\* dip in its readings
SweepReadings ==
    { <<300, 500, 700, 900, 1100, 1300, 1500, 1700, 1900>>,
      <<0, 0, 400, 600, 800, 1000, 1200, 1400, 1400>>,
      <<0, 0, 0, 0, 0, 0, 0, 0, 0>>,
      <<260, 600, 500, 900, 1000, 1200, 1500, 1800, 2200>> }

\* the constructor: no file (or one that is not an object with a samples
\* list), or a file of the family
CalLoadFile ==
    \/ /\ calibration = None
       /\ cal_call = [op |-> "init"]
    \/ \E data \in CalibrationFiles :
          /\ calibration = load_calibration(data)
          /\ cal_call = [op |-> "load", data |-> data]

CalPwmForDemand ==
    /\ \E dnum \in 0..DemandDen, p \in ProfileNames :
          cal_call' = [op |-> "pwm", dnum |-> dnum, profile |-> p,
                       result |-> pwm_for_demand(calibration, dnum,
                                                 PROFILE_CONFIG[p])]
    /\ UNCHANGED <<calibration, now, fanVars, healthVars, aiVars, filterVars,
                   appVars, restVars>>

CalAutotuneSave ==
    /\ \E r \in SweepReadings :
          save_calibration(fit_from_sweep(
              [i \in 1..Len(SweepPoints) |->
                  [pwm |-> SweepPoints[i], rpm |-> r[i]]]))
    /\ UNCHANGED <<now, fanVars, healthVars, aiVars, filterVars, appVars, restVars>>

CalNext ==
    \/ CalPwmForDemand
    \/ CalAutotuneSave

CalSpecInit ==
    /\ now = StartTime
    /\ FanInit
    /\ HealthInit
    /\ AiInit
    /\ CalLoadFile
    /\ FilterInitNoFile
    /\ AppInit
    /\ RestInit

SpecCal == CalSpecInit /\ [][CalNext]_vars

-----------------------------------------------------------------------------
(* Specification of the FilterTracker: the constructor on a state file of  *)
(* a small family or on none, then any sequence of updates, interval       *)
(* changes, resets and flushes as the clock advances.                      *)

\* state files: runtime in runtime units (a negative one among them),
\* last_update_ts unset, in the past and ahead of the clock, and intervals
\* below, inside and above the accepted range
StateFiles ==
    {FilterState(Runtime(0, -7200), 0, 50),
     FilterState(Runtime(0, 72000), StartTime - 30, 720),
     FilterState(Runtime(0, 72000), StartTime + 30, 6000),
     FilterState(Runtime(1, 7200), StartTime, 720)}

\* the device-reported duties passed to update_runtime
FilterSpeeds == {-5, 0, 100}

\* the hours passed by persist_settings
IntervalHours == {50, 720, 6000}

FilterClockSteps == {10, 20}

FilterLoad ==
    /\ \/ FilterInitNoFile
       \/ \E data \in StateFiles :
             /\ filter_state = load_state(data)
             /\ last_persist_ts = now
             /\ state_file = Some(data)
             /\ filter_call = [op |-> "init"]

FilterTick ==
    /\ \E d \in FilterClockSteps :
          /\ now + d <= StartTime + MaxFilterClock
          /\ now' = now + d
    /\ UNCHANGED <<fanVars, healthVars, aiVars, calVars, filterVars,
                   appVars, restVars>>

FilterUpdate ==
    /\ \E speed \in FilterSpeeds, ok \in BOOLEAN : update_runtime(speed, ok)
    /\ UNCHANGED <<now, fanVars, healthVars, aiVars, calVars, appVars, restVars>>

FilterSetInterval ==
    /\ \E hours \in IntervalHours, ok \in BOOLEAN :
          set_replacement_interval(hours, ok)
    /\ UNCHANGED <<now, fanVars, healthVars, aiVars, calVars, appVars, restVars>>

FilterReset ==
    /\ \E ok \in BOOLEAN : reset(ok)
    /\ UNCHANGED <<now, fanVars, healthVars, aiVars, calVars, appVars, restVars>>

FilterFlush ==
    /\ \E ok \in BOOLEAN : flush(ok)
    /\ UNCHANGED <<now, fanVars, healthVars, aiVars, calVars, appVars, restVars>>

FilterNext ==
    \/ FilterTick
    \/ FilterUpdate
    \/ FilterSetInterval
    \/ FilterReset
    \/ FilterFlush

FilterSpecInit ==
    /\ now = StartTime
    /\ FanInit
    /\ HealthInit
    /\ AiInit
    /\ CalInitNoFile
    /\ FilterLoad
    /\ AppInit
    /\ RestInit

SpecFilter == FilterSpecInit /\ [][FilterNext]_vars

-----------------------------------------------------------------------------
(* Specification of the App: the handlers of the main thread in any order, *)
(* interleaved with the steps of the refresh workers, the sweep threads    *)
(* and the manual-send worker.                                             *)

\* slider positions, one of them beyond the scale
SliderValues == {30, 120}

AppScheduleRefresh == schedule_refresh

AppRefreshButton == refresh_button

AppMainRefreshLock == main_refresh_lock

AppMainRefreshStart == main_refresh_start

AppRefreshWorkerFinish == refresh_worker_finish

AppStartAutotune == start_autotune

AppAutotuneFinish == \E t \in AutotuneThreads : autotune_finish(t)

AppAutotuneRefreshEntry == \E t \in AutotuneThreads : autotune_refresh_entry(t)

AppAutotuneRefreshLock == \E t \in AutotuneThreads : autotune_refresh_lock(t)

AppAutotuneRefreshStart == \E t \in AutotuneThreads : autotune_refresh_start(t)

AppManualSpeedChanged == \E value \in SliderValues : manual_speed_changed(value)

AppManualTake == manual_take

AppManualCheck == manual_check

AppSendManualSpeed == \E sent \in BOOLEAN : send_manual_speed(sent)

AppAiModeToggle == on_ai_mode_toggle

AppClose == \E ok \in BOOLEAN : on_close(ok)

AppNext ==
    \/ AppScheduleRefresh
    \/ AppRefreshButton
    \/ AppMainRefreshLock
    \/ AppMainRefreshStart
    \/ AppRefreshWorkerFinish
    \/ AppStartAutotune
    \/ AppAutotuneFinish
    \/ AppAutotuneRefreshEntry
    \/ AppAutotuneRefreshLock
    \/ AppAutotuneRefreshStart
    \/ AppManualSpeedChanged
    \/ AppManualTake
    \/ AppManualCheck
    \/ AppSendManualSpeed
    \/ AppAiModeToggle
    \/ AppClose

AppSpecInit ==
    /\ now = StartTime
    /\ FanInit
    /\ HealthInit
    /\ AiInit
    /\ CalInitNoFile
    /\ FilterInitNoFile
    /\ AppInit
    /\ RestInit

SpecApp == AppSpecInit /\ [][AppNext]_vars

-----------------------------------------------------------------------------
(* Specification of the refresh cycle: the timer, the AI-mode checkbox     *)
(* being cleared and the close button on the main thread, the worker       *)
(* thread going through its cycles with any outcome of every request, the  *)
(* clock advancing between cycles, and the end of the process after the    *)
(* window is closed.                                                       *)

\* the snapshot read_openweather returns: clean air on a mild day
MildDay ==
    [aqi |-> 20, pm2_5 |-> 100, pm10 |-> 200, no2 |-> 50, o3 |-> 50,
     room_temp |-> 220, outside_temp |-> 150, room_humidity |-> 400,
     outside_humidity |-> 500, weather_desc |-> 0, wind_speed |-> 30]

CycleSnapshots == {MildDay}

\* the advisory's outcomes: an error, a reply with a duty
CycleReplies == {ReplyError, ReplyText(FALSE, Some(48))}

\* seconds that pass between two cycles besides none: the weather interval
\* and the advisory's upper interval
CycleClockSteps == {WEATHER_REFRESH_INTERVAL_SECONDS,
                    LLM_MAX_INTERVAL_SECONDS}

CycleClock ==
    /\ cycle_pc = "none"
    /\ ~exited
    /\ \E d \in CycleClockSteps :
          /\ now + d <= StartTime + MaxCycleClock
          /\ now' = now + d
    /\ UNCHANGED <<fanVars, healthVars, aiVars, calVars, filterVars,
                   appVars, restVars>>

CycleScheduleRefresh == schedule_refresh

CycleMainRefreshLock == main_refresh_lock

CycleMainRefreshStart == main_refresh_start

\* the checkbox is cleared, at any moment of a cycle
CycleAiModeToggle == ai_auto_var /\ on_ai_mode_toggle

CycleClose == on_close(TRUE)

CycleExit == process_exit

CycleWorkerBegin == worker_begin

\* failures recorded so far
CycleFailures == esp_failures + api_failures + ai_failures

CycleReadEsp ==
    \E ok \in BOOLEAN :
        /\ ~ok => CycleFailures < MaxCycleFailures
        /\ worker_read_esp(ok)

CycleWeather ==
    \E fetched \in {None} \cup {Some(s) : s \in CycleSnapshots} :
        /\ fetched = None => CycleFailures < MaxCycleFailures
        /\ worker_weather(fetched)

CycleControl ==
    \E reply \in CycleReplies :
        /\ AdvisoryFailed(reply) => CycleFailures < MaxCycleFailures
        /\ worker_control(reply)

CycleCompute == worker_compute

CycleShouldPush == worker_should_push

CyclePush ==
    \E outcome \in PushOutcomes :
        /\ outcome # "ok" => CycleFailures < MaxCycleFailures
        /\ worker_push(outcome)

CycleAdvice ==
    \E reply \in CycleReplies :
        /\ NoteFailed(reply) => CycleFailures < MaxCycleFailures
        /\ worker_advice(reply)

CyclePollution ==
    \E reply \in CycleReplies :
        /\ NoteFailed(reply) => CycleFailures < MaxCycleFailures
        /\ worker_pollution(reply)

CycleFilter == worker_filter(TRUE)

CycleFinally == worker_finally

CycleNext ==
    \/ CycleClock
    \/ CycleScheduleRefresh
    \/ CycleMainRefreshLock
    \/ CycleMainRefreshStart
    \/ CycleAiModeToggle
    \/ CycleClose
    \/ CycleExit
    \/ CycleWorkerBegin
    \/ CycleReadEsp
    \/ CycleWeather
    \/ CycleControl
    \/ CycleCompute
    \/ CycleShouldPush
    \/ CyclePush
    \/ CycleAdvice
    \/ CyclePollution
    \/ CycleFilter
    \/ CycleFinally

CycleSpecInit ==
    /\ now = StartTime
    /\ FanInit
    /\ HealthInit
    /\ AiInit
    /\ CalInitNoFile
    /\ FilterInitNoFile
    /\ AppInit
    /\ RestInit

SpecCycle == CycleSpecInit /\ [][CycleNext]_vars

-----------------------------------------------------------------------------
(* Specification of the advisory throttle: the three advisory calls of a   *)
(* cycle in the worker's order, decide_fan_target, temperature_advice and  *)
(* pollution_comment, on the snapshot of the cycle, which is any of three, *)
(* forced or not, with any outcome of every request, the clock advancing   *)
(* between cycles by the lower interval or by one second less              *)

\* the snapshots: the mild day; the same with the AQI one category higher
\* and the room 1.1 degrees warmer; the mild day under another description
WarmerDay == [MildDay EXCEPT !.aqi = 30, !.room_temp = 231]

OvercastDay == [MildDay EXCEPT !.weather_desc = 1]

ThrottleSnapshots == {MildDay, WarmerDay, OvercastDay}

ThrottleClockSteps == {LLM_MIN_INTERVAL_SECONDS - 1, LLM_MIN_INTERVAL_SECONDS}

ThrottleFrame ==
    UNCHANGED <<now, fanVars, calVars, filterVars, appVars, dmVars,
                lockVars, cmdVars, geoVars, device, exited, prev_cycle,
                last_esp, last_weather, last_weather_fetch_ts,
                fail_safe_mode>>

\* a cycle has its snapshot and its fail-safe flag
ThrottleBeginWith(snapshot, force_fail_safe) ==
    /\ cycle_pc = "none"
    /\ cycle' = [NoCycle EXCEPT !.snapshot = Some(snapshot),
                                !.local_fail_safe = force_fail_safe]
    /\ cycle_pc' = "control"
    /\ UNCHANGED <<healthVars, aiVars, noteVars>>
    /\ ThrottleFrame

\* the call of decide_fan_target in the worker and the flag it may raise
ThrottleFanCall(reply) ==
    /\ cycle_pc = "control"
    /\ decide_fan_target(CycleProfile, fan_context(Val(cycle.snapshot)),
                         curve_baseline_speed(Val(cycle.snapshot)),
                         cycle.local_fail_safe, reply)
    /\ cycle' = [cycle EXCEPT
           !.local_fail_safe = cycle.local_fail_safe \/ ai_call'.failed]
    /\ cycle_pc' = "advice"
    /\ UNCHANGED noteVars
    /\ ThrottleFrame

ThrottleAdviceCall(reply) ==
    /\ cycle_pc = "advice"
    /\ temperature_advice(weather_context(Val(cycle.snapshot)),
                          cycle.local_fail_safe, reply)
    /\ cycle_pc' = "pollution"
    /\ UNCHANGED <<aiVars, cached_pollution_comment,
                   last_pollution_comment_ts, last_pollution_context>>
    /\ ThrottleFrame

ThrottlePollutionCall(reply) ==
    /\ cycle_pc = "pollution"
    /\ pollution_comment(pollution_context(Val(cycle.snapshot)),
                         cycle.local_fail_safe, reply)
    /\ cycle_pc' = "none"
    /\ UNCHANGED <<aiVars, cached_advice, last_advice_ts,
                   last_weather_context>>
    /\ ThrottleFrame

ThrottleTick ==
    /\ cycle_pc = "none"
    /\ \E d \in ThrottleClockSteps :
          /\ now + d <= StartTime + MaxThrottleClock
          /\ now' = now + d
    /\ UNCHANGED <<fanVars, healthVars, aiVars, calVars, filterVars,
                   appVars, restVars>>

ThrottleBegin ==
    \E s \in ThrottleSnapshots, f \in BOOLEAN : ThrottleBeginWith(s, f)

ThrottleFan ==
    \E r \in CycleReplies :
        /\ AdvisoryFailed(r) => ai_failures < MaxFailures
        /\ ThrottleFanCall(r)

ThrottleAdvice ==
    \E r \in CycleReplies :
        /\ NoteFailed(r) => ai_failures < MaxFailures
        /\ ThrottleAdviceCall(r)

ThrottlePollution ==
    \E r \in CycleReplies :
        /\ NoteFailed(r) => ai_failures < MaxFailures
        /\ ThrottlePollutionCall(r)

ThrottleNext ==
    \/ ThrottleTick
    \/ ThrottleBegin
    \/ ThrottleFan
    \/ ThrottleAdvice
    \/ ThrottlePollution

ThrottleSpecInit ==
    /\ now = StartTime
    /\ FanInit
    /\ HealthInit
    /\ AiInit
    /\ CalInitNoFile
    /\ FilterInitNoFile
    /\ AppInit
    /\ RestInit

SpecThrottle == ThrottleSpecInit /\ [][ThrottleNext]_vars

-----------------------------------------------------------------------------
(* Specification of the mode switch: the AI-mode checkbox set and cleared  *)
(* at any moment, the timer on the main thread, and the worker thread      *)
(* going through its cycles with any outcome of every request              *)

ModeToggle == on_ai_mode_toggle

ModeNext ==
    \/ ModeToggle
    \/ CycleScheduleRefresh
    \/ CycleMainRefreshLock
    \/ CycleMainRefreshStart
    \/ CycleWorkerBegin
    \/ CycleReadEsp
    \/ CycleWeather
    \/ CycleControl
    \/ CycleCompute
    \/ CycleShouldPush
    \/ CyclePush
    \/ CycleAdvice
    \/ CyclePollution
    \/ CycleFilter
    \/ CycleFinally

ModeSpecInit ==
    /\ now = StartTime
    /\ FanInit
    /\ HealthInit
    /\ AiInit
    /\ CalInitNoFile
    /\ FilterInitNoFile
    /\ AppInit
    /\ RestInit

SpecMode == ModeSpecInit /\ [][ModeNext]_vars

-----------------------------------------------------------------------------
(* Specification of the manual sender: the AI-mode checkbox is cleared and *)
(* stays cleared, the slider is moved at any moment between the timer's    *)
(* refreshes, and the worker thread takes, sends and checks, every         *)
(* exchange with the device succeeding.  The worker is a running thread:   *)
(* each of its steps is taken once it can be.                              *)

ManualToggleOff == ai_auto_var /\ on_ai_mode_toggle

ManualSpeedChanged ==
    \E value \in SliderValues : manual_speed_changed(value)

ManualTake == manual_take

ManualCheck == manual_check

ManualSend == send_manual_speed(TRUE)

ManualNext ==
    \/ AppScheduleRefresh
    \/ AppMainRefreshLock
    \/ AppMainRefreshStart
    \/ AppRefreshWorkerFinish
    \/ ManualToggleOff
    \/ ManualSpeedChanged
    \/ ManualTake
    \/ ManualCheck
    \/ ManualSend

ManualSpecInit ==
    /\ now = StartTime
    /\ FanInit
    /\ HealthInit
    /\ AiInit
    /\ CalInitNoFile
    /\ FilterInitNoFile
    /\ AppInit
    /\ RestInit

SpecManual ==
    /\ ManualSpecInit
    /\ [][ManualNext]_vars
    /\ WF_vars(ManualTake)
    /\ WF_vars(ManualCheck)
    /\ WF_vars(ManualSend)

-----------------------------------------------------------------------------
(* Specification of the refresh flag: the timer on the main thread, and    *)
(* the worker thread going through its cycles in AI mode with any outcome  *)
(* of every request and an exception at any position.  The main thread     *)
(* finishes the handler it has begun and a started worker thread runs:     *)
(* their steps are taken once they can be.                                 *)

RefreshRaise == worker_raise

\* a step of the worker thread
RefreshWorkerStep ==
    \/ CycleWorkerBegin
    \/ CycleReadEsp
    \/ CycleWeather
    \/ CycleControl
    \/ CycleCompute
    \/ CycleShouldPush
    \/ CyclePush
    \/ CycleAdvice
    \/ CyclePollution
    \/ CycleFilter
    \/ CycleFinally
    \/ RefreshRaise

RefreshNext ==
    \/ CycleScheduleRefresh
    \/ CycleMainRefreshLock
    \/ CycleMainRefreshStart
    \/ CycleWorkerBegin
    \/ CycleReadEsp
    \/ CycleWeather
    \/ CycleControl
    \/ CycleCompute
    \/ CycleShouldPush
    \/ CyclePush
    \/ CycleAdvice
    \/ CyclePollution
    \/ CycleFilter
    \/ CycleFinally
    \/ RefreshRaise

RefreshSpecInit ==
    /\ now = StartTime
    /\ FanInit
    /\ HealthInit
    /\ AiInit
    /\ CalInitNoFile
    /\ FilterInitNoFile
    /\ AppInit
    /\ RestInit

SpecRefresh ==
    /\ RefreshSpecInit
    /\ [][RefreshNext]_vars
    /\ WF_vars(CycleMainRefreshStart)
    /\ WF_vars(RefreshWorkerStep)

-----------------------------------------------------------------------------
(* Specification of the calibration sweep: the Autotune button and the     *)
(* timer on the main thread, the sweep's thread with any outcome of each   *)
(* of its device calls, and the refresh workers.  A started thread runs    *)
(* and the main thread finishes the handler it has begun.                  *)

SweepReplies == {"auto", "manual", "failed"}

SweepStart == start_autotune

SweepPrepare ==
    \E t \in AutotuneThreads, reply \in SweepReplies :
        /\ reply = "failed" => esp_failures < MaxFailures
        /\ sweep_prepare(t, reply)

SweepToggle ==
    \E t \in AutotuneThreads, ok \in BOOLEAN :
        /\ ~ok => esp_failures < MaxFailures
        /\ sweep_toggle(t, ok)

SweepLoop ==
    \E t \in AutotuneThreads, ok \in BOOLEAN :
        /\ ~ok => esp_failures < MaxFailures
        /\ sweep_points(t, ok)

SweepSave ==
    \E t \in AutotuneThreads, ok \in BOOLEAN :
        /\ ~ok => esp_failures < MaxFailures
        /\ sweep_save(t, ok)

SweepRestoreSpeed ==
    \E t \in AutotuneThreads, ok \in BOOLEAN : sweep_restore_speed(t, ok)

SweepRestoreAuto ==
    \E t \in AutotuneThreads, ok \in BOOLEAN : sweep_restore_auto(t, ok)

SweepRestoreRead ==
    \E t \in AutotuneThreads, ok \in BOOLEAN : sweep_restore_read(t, ok)

SweepClear == \E t \in AutotuneThreads : sweep_clear(t)

\* a step of the thread t of a sweep
SweepThread(t) ==
    \/ \E reply \in SweepReplies :
          /\ reply = "failed" => esp_failures < MaxFailures
          /\ sweep_prepare(t, reply)
    \/ \E ok \in BOOLEAN :
          /\ ~ok => esp_failures < MaxFailures
          /\ sweep_toggle(t, ok) \/ sweep_points(t, ok) \/ sweep_save(t, ok)
    \/ \E ok \in BOOLEAN :
          \/ sweep_restore_speed(t, ok)
          \/ sweep_restore_auto(t, ok)
          \/ sweep_restore_read(t, ok)
    \/ sweep_clear(t)
    \/ autotune_refresh_entry(t)
    \/ autotune_refresh_lock(t)
    \/ autotune_refresh_start(t)

SweepNext ==
    \/ SweepStart
    \/ AppScheduleRefresh
    \/ AppMainRefreshLock
    \/ AppMainRefreshStart
    \/ AppRefreshWorkerFinish
    \/ SweepPrepare
    \/ SweepToggle
    \/ SweepLoop
    \/ SweepSave
    \/ SweepRestoreSpeed
    \/ SweepRestoreAuto
    \/ SweepRestoreRead
    \/ SweepClear
    \/ AppAutotuneRefreshEntry
    \/ AppAutotuneRefreshLock
    \/ AppAutotuneRefreshStart

SweepSpecInit ==
    /\ now = StartTime
    /\ FanInit
    /\ HealthInit
    /\ AiInit
    /\ CalInitNoFile
    /\ FilterInitNoFile
    /\ AppInit
    /\ RestInit

SpecSweep ==
    /\ SweepSpecInit
    /\ [][SweepNext]_vars
    /\ \A t \in AutotuneThreads : WF_vars(SweepThread(t))

-----------------------------------------------------------------------------
(* Specification of the locks: the threads of the two processes enter the  *)
(* regions of their process in any order and interleaving                  *)

LocksFrame ==
    UNCHANGED <<now, fanVars, healthVars, aiVars, calVars, filterVars,
                appVars, dmVars, cycleVars, cmdVars, geoVars>>

LocksEnter ==
    /\ \E t \in Threads : \E region \in Regions(t) : thread_enter(t, region)
    /\ LocksFrame

LocksAcquire ==
    /\ \E t \in Threads : thread_acquire(t)
    /\ LocksFrame

LocksRelease ==
    /\ \E t \in Threads : thread_release(t)
    /\ LocksFrame

LocksNext ==
    \/ LocksEnter
    \/ LocksAcquire
    \/ LocksRelease

LocksSpecInit ==
    /\ now = StartTime
    /\ FanInit
    /\ HealthInit
    /\ AiInit
    /\ CalInitNoFile
    /\ FilterInitNoFile
    /\ AppInit
    /\ RestInit

SpecLocks == LocksSpecInit /\ [][LocksNext]_vars

-----------------------------------------------------------------------------
(* Specification of DataManager.send_esp_command: commands to any path,    *)
(* every attempt of every request ending in any way, every body of any     *)
(* shape                                                                   *)

CommandPaths == {"/toggle", "/set?speed=60"}

\* the outcomes of an attempt the specification draws from
CommandOutcomes == {"ok", "timeout", "invalid_json"}

CommandFrame ==
    UNCHANGED <<now, fanVars, healthVars, aiVars, calVars, filterVars,
                appVars, cycleVars, lockVars, geoVars>>

CommandSend ==
    /\ \E path \in CommandPaths : send_esp_command(path)
    /\ CommandFrame

CommandAttempt ==
    /\ cmd.pc \in {"json", "text", "state", "data"}
    /\ \E outcome \in CommandOutcomes : request_attempt(outcome)
    /\ UNCHANGED cmd
    /\ CommandFrame

CommandRequestRaise ==
    /\ cmd.pc \in {"json", "text", "state", "data"}
    /\ request_raise
    /\ UNCHANGED cmd
    /\ CommandFrame

CommandJsonReturned ==
    /\ \E body \in JsonBodies : command_json_returned(body)
    /\ CommandFrame

CommandJsonRaised == command_json_raised /\ CommandFrame

CommandTextReturned == command_text_returned /\ CommandFrame

CommandStateReturned ==
    /\ \E body \in JsonBodies : command_state_returned(body)
    /\ CommandFrame

CommandStateRaised == command_state_raised /\ CommandFrame

CommandDataReturned ==
    /\ \E body \in JsonBodies : command_data_returned(body)
    /\ CommandFrame

CommandFailed == command_failed /\ CommandFrame

CommandNext ==
    \/ CommandSend
    \/ CommandAttempt
    \/ CommandRequestRaise
    \/ CommandJsonReturned
    \/ CommandJsonRaised
    \/ CommandTextReturned
    \/ CommandStateReturned
    \/ CommandStateRaised
    \/ CommandDataReturned
    \/ CommandFailed

CommandSpecInit ==
    /\ now = StartTime
    /\ FanInit
    /\ HealthInit
    /\ AiInit
    /\ CalInitNoFile
    /\ FilterInitNoFile
    /\ AppInit
    /\ RestInit

SpecCommand == CommandSpecInit /\ [][CommandNext]_vars

-----------------------------------------------------------------------------
(* Specification of the geo cache: the request threads call                *)
(* read_openweather for any city, in any interleaving                      *)

GeoFrame ==
    UNCHANGED <<now, fanVars, healthVars, aiVars, calVars, filterVars,
                appVars, dmVars, cycleVars, lockVars, cmdVars>>

GeoCall ==
    /\ \E t \in WebThreads, city \in Cities : read_openweather(t, city)
    /\ GeoFrame

GeoGeocode ==
    /\ \E t \in WebThreads, found \in BOOLEAN :
          /\ weather_call[t].pc = "geocode"
          /\ geocoded[weather_call[t].key] < MaxGeocodes
          /\ weather_geocode(t, found)
    /\ GeoFrame

GeoStore ==
    /\ \E t \in WebThreads : weather_store(t)
    /\ GeoFrame

GeoFetch ==
    /\ \E t \in WebThreads : weather_fetch(t)
    /\ GeoFrame

GeoNext ==
    \/ GeoCall
    \/ GeoGeocode
    \/ GeoStore
    \/ GeoFetch

GeoSpecInit ==
    /\ now = StartTime
    /\ FanInit
    /\ HealthInit
    /\ AiInit
    /\ CalInitNoFile
    /\ FilterInitNoFile
    /\ AppInit
    /\ RestInit

SpecGeo == GeoSpecInit /\ [][GeoNext]_vars

-----------------------------------------------------------------------------
(* Properties of the FanController                                         *)

FanCallInBounds ==
    /\ fan_call.applied >= PROFILE_CONFIG[fan_call.profile].min_speed
    /\ fan_call.applied <= PROFILE_CONFIG[fan_call.profile].max_speed

FanCallWithinStep ==
    Abs(fan_call.applied - Val(fan_call.before))
        <= PROFILE_CONFIG[fan_call.profile].step

FanBeforeInBounds ==
    /\ Val(fan_call.before) >= PROFILE_CONFIG[fan_call.profile].min_speed
    /\ Val(fan_call.before) <= PROFILE_CONFIG[fan_call.profile].max_speed

\* C1 as stated: every compute_applied_speed call after the seeding call
\* changes the stored applied duty by at most the step limit of the profile
\* passed to it, and every call returns an applied duty within that profile's
\* [min_speed, max_speed], whichever profile each call is given.
C1_StepAndBoundsAnyProfile ==
    fan_call.op = "compute" =>
        /\ FanCallInBounds
        /\ fan_call.before # None => FanCallWithinStep

\* C1 amended: every compute_applied_speed call returns an applied duty within
\* [min_speed, max_speed] of the profile passed to it, and every call after
\* the seeding call that finds the stored applied duty within those bounds
\* changes it by at most that profile's step limit.
C1_StepWithinProfileBounds ==
    fan_call.op = "compute" =>
        /\ FanCallInBounds
        /\ (fan_call.before # None /\ FanBeforeInBounds) => FanCallWithinStep

\* a call after the seeding call that moved the applied duty by a full step
C1_Witness ==
    /\ fan_call.op = "compute"
    /\ fan_call.before # None
    /\ FanBeforeInBounds
    /\ Abs(fan_call.applied - Val(fan_call.before))
           = PROFILE_CONFIG[fan_call.profile].step

-----------------------------------------------------------------------------
(* Properties of the HealthMonitor                                         *)

\* C5: status() is a strict priority function of the three last-success
\* flags and the failure counters: device flag false gives ESP Offline
\* whatever the other flags are; otherwise API flag false gives API Degraded;
\* otherwise advisory flag false gives AI Degraded; otherwise a nonzero
\* counter gives Recovering; otherwise Healthy.
C5_StatusPriority ==
    /\ ~last_esp_ok => status.label = "Health: ESP Offline"
    /\ (last_esp_ok /\ ~last_api_ok) => status.label = "Health: API Degraded"
    /\ (last_esp_ok /\ last_api_ok /\ ~last_ai_ok)
           => status.label = "Health: AI Degraded"
    /\ (last_esp_ok /\ last_api_ok /\ last_ai_ok
           /\ (esp_failures > 0 \/ api_failures > 0 \/ ai_failures > 0))
           => status.label = "Health: Recovering"
    /\ (last_esp_ok /\ last_api_ok /\ last_ai_ok
           /\ esp_failures = 0 /\ api_failures = 0 /\ ai_failures = 0)
           => status.label = "Health: Healthy"
    /\ status.healthy = (last_esp_ok /\ last_api_ok /\ last_ai_ok)

\* all three flags false: the device flag overrides the other two
C5_Witness ==
    /\ ~last_esp_ok
    /\ ~last_api_ok
    /\ ~last_ai_ok
    /\ status.label = "Health: ESP Offline"

-----------------------------------------------------------------------------
(* Properties of the AIController                                          *)

\* C6: _should_query_llm returns false on every call made less than 120 s
\* after the last query when the context is unchanged, and true on every call
\* made 300 s or more after the last query, whatever the contexts are.
C6_QueryIntervals ==
    (ai_call.op = "decide" /\ ai_call.asked) =>
        /\ (ai_call.elapsed < 120 /\ ai_call.same) => ~ai_call.should
        /\ ai_call.elapsed >= 300 => ai_call.should

\* a call 119 s after the last query with the same context: no query
C6_Witness ==
    /\ ai_call.op = "decide"
    /\ ai_call.asked
    /\ ai_call.elapsed = 119
    /\ ai_call.same
    /\ ~ai_call.should
    /\ ~ai_call.queried

\* the advisory request of the last decide_fan_target call failed: it raised,
\* or its reply was empty
AdvisoryRequestFailed ==
    /\ ai_call.op = "decide"
    /\ ai_call.queried
    /\ \/ ai_call.reply.kind = "error"
       \/ (ai_call.reply.kind = "text" /\ ai_call.reply.empty)

\* C9: when the advisory request made by decide_fan_target fails in any way
\* (transport error after retries, timeout, malformed or empty reply), the
\* call records an advisory failure in the HealthMonitor, returns the
\* baseline clamped to the profile bounds and reports the cycle as degraded.
C9_AdvisoryFailureDegrades ==
    AdvisoryRequestFailed =>
        /\ ai_call.failed
        /\ ~last_ai_ok
        /\ last_error = "ai"
        /\ ai_call.result = clamp(ai_call.baseline,
                                  PROFILE_CONFIG[ai_call.profile].min_speed,
                                  PROFILE_CONFIG[ai_call.profile].max_speed)

\* C10: on a forced fail-safe request decide_fan_target returns exactly the
\* baseline it was given, reports fail-safe and issues no advisory request,
\* whatever the fan-target cache holds.
C10_ForcedFailSafe ==
    (ai_call.op = "decide" /\ ai_call.forced) =>
        /\ ai_call.result = ai_call.baseline
        /\ ai_call.failed
        /\ ~ai_call.queried

\* a forced call with a baseline below the profile's minimum, made while the
\* cache holds a value that is 300 s old
C10_Witness ==
    /\ ai_call.op = "decide"
    /\ ai_call.forced
    /\ ai_call.baseline < PROFILE_CONFIG[ai_call.profile].min_speed
    /\ ai_call.result = ai_call.baseline
    /\ last_fan_context # None
    /\ now - last_fan_ai_ts >= LLM_MAX_INTERVAL_SECONDS

AiCallProfile == PROFILE_CONFIG[ai_call.profile]

AiResultInBounds ==
    /\ AiCallProfile.min_speed <= ai_call.result
    /\ ai_call.result <= AiCallProfile.max_speed

AiBaselineClamped ==
    clamp(ai_call.baseline, AiCallProfile.min_speed, AiCallProfile.max_speed)

\* round(0.65 * baseline + 0.35 * target) clamped to the profile bounds
AiBlendClamped ==
    clamp(RoundBlend(ai_call.baseline, ai_call.target),
          AiCallProfile.min_speed, AiCallProfile.max_speed)

-----------------------------------------------------------------------------
(* Properties of the CalibrationManager                                    *)

CurveSamples == Val(calibration).samples

\* at least two samples, duty ascending and RPM non-decreasing
MonotonicCurve ==
    /\ calibration # None
    /\ Len(CurveSamples) >= 2
    /\ \A i \in 2..Len(CurveSamples) :
          /\ CurveSamples[i - 1].pwm <= CurveSamples[i].pwm
          /\ CurveSamples[i - 1].rpm <= CurveSamples[i].rpm

LowestDuty ==
    clamp(CurveSamples[1].pwm,
          PROFILE_CONFIG[cal_call.profile].min_speed,
          PROFILE_CONFIG[cal_call.profile].max_speed)

HighestDuty ==
    clamp(CurveSamples[Len(CurveSamples)].pwm,
          PROFILE_CONFIG[cal_call.profile].min_speed,
          PROFILE_CONFIG[cal_call.profile].max_speed)

\* C7 as stated: for every curve with at least two samples, duty ascending and
\* RPM non-decreasing, and every profile, pwm_for_demand(0) is the lowest
\* sample's duty and pwm_for_demand(1) the highest sample's duty, both clamped
\* to the profile bounds, whatever spin-up RPM and max RPM the curve carries.
C7_EndpointsAnyCurve ==
    (cal_call.op = "pwm" /\ MonotonicCurve) =>
        /\ cal_call.dnum = 0 => cal_call.result = Some(LowestDuty)
        /\ cal_call.dnum = DemandDen => cal_call.result = Some(HighestDuty)

\* C7 amended: for every such curve whose max RPM exceeds its spin-up RPM,
\* pwm_for_demand(0) is the lowest sample's duty (clamped) when the spin-up
\* RPM is at most the lowest sample's RPM, and pwm_for_demand(1) is the
\* highest sample's duty (clamped) when the max RPM is at least the highest
\* sample's RPM and above the lowest sample's RPM.
C7_EndpointsWhenRangeCoversCurve ==
    (cal_call.op = "pwm" /\ MonotonicCurve
        /\ Val(calibration).max_rpm > Val(calibration).spin_up_rpm) =>
        /\ (cal_call.dnum = 0
              /\ Val(calibration).spin_up_rpm <= CurveSamples[1].rpm)
             => cal_call.result = Some(LowestDuty)
        /\ (cal_call.dnum = DemandDen
              /\ Val(calibration).max_rpm
                     >= CurveSamples[Len(CurveSamples)].rpm
              /\ Val(calibration).max_rpm > CurveSamples[1].rpm)
             => cal_call.result = Some(HighestDuty)

\* demand 0 on a curve whose lowest sample is its spin-up point and whose
\* lowest duty lies below the profile's minimum
C7_Witness ==
    /\ cal_call.op = "pwm"
    /\ MonotonicCurve
    /\ Val(calibration).max_rpm > Val(calibration).spin_up_rpm
    /\ cal_call.dnum = 0
    /\ Val(calibration).spin_up_rpm = CurveSamples[1].rpm
    /\ CurveSamples[1].pwm < PROFILE_CONFIG[cal_call.profile].min_speed
    /\ CurveSamples[1].pwm < CurveSamples[Len(CurveSamples)].pwm
    /\ cal_call.result = Some(LowestDuty)

-----------------------------------------------------------------------------
(* Properties of the FilterTracker                                         *)

\* the operation just performed is not a reset, and if it is an update its
\* duty is non-negative
FilterCallBetweenResets ==
    /\ filter_call.op \in {"update", "set_interval", "flush"}
    /\ filter_call.op = "update" => filter_call.speed >= 0

FilterCallAfterReset ==
    filter_call.op = "reset" => filter_call.after.num = NoRuntime

\* C8 as stated: between two resets, whatever FilterTracker operation is
\* performed (updates having a non-negative duty), usage_percent after the
\* operation is at least usage_percent before it; immediately after reset it
\* is 0.
C8_UsageNeverDecreases ==
    /\ FilterCallBetweenResets
          => FracLeq(filter_call.before, filter_call.after)
    /\ FilterCallAfterReset

\* C8 amended: between two resets, over operations in which every update has
\* a non-negative duty and no set_replacement_interval raises the
\* replacement interval, usage_percent after the operation is at least
\* usage_percent before it; immediately after reset it is 0.
C8_UsageNeverDecreasesUnlessIntervalRaised ==
    /\ (/\ FilterCallBetweenResets
        /\ filter_call.op = "set_interval"
              => filter_state.replacement_interval_hours
                     <= filter_call.old_interval)
          => FracLeq(filter_call.before, filter_call.after)
    /\ FilterCallAfterReset

\* an update with a positive duty and a positive elapsed time has raised the
\* usage of a filter that had been reset after use
C8_Witness ==
    /\ filter_call.op = "update"
    /\ filter_call.speed > 0
    /\ filter_call.elapsed > 0
    /\ filter_call.before
          = Frac(NoRuntime, filter_state.replacement_interval_hours)
    /\ ~FracLeq(filter_call.after, filter_call.before)
    /\ state_file # None
    /\ Val(state_file).runtime_hours = NoRuntime
    /\ ~RuntimeLeq(filter_state.runtime_hours, NoRuntime)

-----------------------------------------------------------------------------
(* Properties of the App                                                   *)

\* callers of refresh_async that have passed the test of
\* autotune_in_progress and stand before refresh_lock
CallersAtLock ==
    {t \in AutotuneThreads : autotune_pc[t] = "ra_checked"}

\* C2: at most one _refresh_worker is executing at any time, whichever of
\* the timer, the Refresh button, the AI-mode toggle and the end of a sweep
\* the refresh_async calls come from and however they interleave.
C2_AtMostOneRefreshCycle == refresh_workers <= 1

\* a refresh cycle is executing while the main thread and a sweep's thread
\* both stand before refresh_lock
C2_Witness ==
    /\ refresh_workers = 1
    /\ refresh_in_progress
    /\ main_pc = "ra_checked"
    /\ CallersAtLock # {}

SweepExecuting == \E t \in AutotuneThreads : autotune_pc[t] = "sweep"

\* C3 as stated: at no time are a calibration sweep and a refresh cycle both
\* executing.
C3_SweepExcludesRefresh == ~(SweepExecuting /\ refresh_workers > 0)

\* C4: every duty the manual-send worker sends is the duty of the latest
\* accepted request at the moment the worker took it from the slot, and no
\* request overwritten in the slot by a newer one is ever sent.
C4_LastWriteWins ==
    \A entry \in manual_sent :
        /\ entry.id = entry.latest.id
        /\ entry.speed = entry.latest.speed
        /\ entry.id \notin superseded

\* the worker has sent, clamped to the scale, a request that had overwritten
\* another in the slot, and the overwritten one was not sent
C4_Witness ==
    \E entry \in manual_sent :
        /\ entry.id - 1 \in superseded
        /\ entry.speed = 100
        /\ \A other \in manual_sent : other.id # entry.id - 1

-----------------------------------------------------------------------------
(* Properties of DataManager._request                                      *)

RequestFailures == {i \in 1..Len(req.outcomes) : req.outcomes[i] # "ok"}

\* the delays slept after k failed attempts: 2^0, ..., 2^(k-1)
BackoffDelays(k) == [i \in 1..k |-> 2 ^ (i - 1)]

\* C12: _request makes at most max_attempts attempts, returns at the first
\* successful one without making another, sleeps 2^attempt seconds after
\* each failed attempt except the last of max_attempts, and after
\* max_attempts failed attempts ends by raising exactly one classified
\* error.
C12_BoundedRetries ==
    req.pc # "idle" =>
        /\ Len(req.outcomes) <= req.max_attempts
        /\ \A i \in 1..(Len(req.outcomes) - 1) : req.outcomes[i] # "ok"
        /\ req.pc = "returned" <=>
              (req.outcomes # <<>> /\ req.outcomes[Len(req.outcomes)] = "ok")
        /\ req.slept = BackoffDelays(Min2(Cardinality(RequestFailures),
                                          Max2(0, req.max_attempts - 1)))
        /\ req.pc = "raised" =>
              /\ Len(req.outcomes) = req.max_attempts
              /\ Len(req.raised) = 1
              /\ req.max_attempts > 0 =>
                    req.raised[1]
                        = Classified(req.outcomes[req.max_attempts])
        /\ req.pc # "raised" => req.raised = <<>>

\* three attempts failed in three ways, two sleeps, and the error raised is
\* the one of the last attempt
C12_Witness ==
    /\ req.pc = "raised"
    /\ req.outcomes = <<"http", "timeout", "invalid_json">>
    /\ req.slept = <<1, 2>>
    /\ req.raised = <<Classified("invalid_json")>>

-----------------------------------------------------------------------------
(* Properties of the refresh cycle                                         *)

\* the worker has left the body of its cycle
CycleOver == cycle_pc = "finally"

Attempted(outcome) == outcome \in {"ok", "failed"}

\* C13 as stated: a subsystem that failed in one cycle is attempted again
\* in the next cycle, whatever subsystem it is
C13_RetriedInNextCycle ==
    CycleOver =>
        /\ prev_cycle.esp = "failed" => Attempted(cycle.esp)
        /\ prev_cycle.weather = "failed" => Attempted(cycle.weather)
        /\ prev_cycle.advisory = "failed" => Attempted(cycle.advisory)

\* the decision of the cycle was neither skipped nor forced to fail-safe
CycleDecidedFreely == cycle.advisory \in {"cached", "ok", "failed"}

\* C13: every cycle reads the device; after a failed weather/air fetch the
\* next cycle whose device read succeeds fetches again; after a failed
\* advisory query the next cycle that decides in AI mode without forced
\* fail-safe asks again once 300 s have passed since the failed query and
\* reuses the cached duty while fewer than 120 s have passed; no failure
\* ends the process, and a cycle that is over leaves the next tick free to
\* start a cycle.
C13_RetriedWhenReachedAndDue ==
    /\ CycleOver =>
          /\ Attempted(cycle.esp)
          /\ (prev_cycle.weather = "failed" /\ cycle.esp = "ok")
                => Attempted(cycle.weather)
          /\ (prev_cycle.advisory = "failed" /\ CycleDecidedFreely) =>
                /\ ai_call.elapsed >= LLM_MAX_INTERVAL_SECONDS
                      => Attempted(cycle.advisory)
                /\ ai_call.elapsed < LLM_MIN_INTERVAL_SECONDS
                      => cycle.advisory = "cached"
    /\ exited => shutdown_event
    /\ (cycle_pc = "none" /\ refresh_workers = 0 /\ main_pc = "idle")
          => ~refresh_in_progress

\* the advisory failed in one cycle and the next cycle, 300 s later, has
\* asked it again
C13_Witness ==
    /\ CycleOver
    /\ prev_cycle.advisory = "failed"
    /\ Attempted(cycle.advisory)
    /\ ai_call.elapsed >= LLM_MAX_INTERVAL_SECONDS

\* the cycle's fetch failed with a snapshot of an earlier fetch at hand,
\* and the cycle has run to its end
FetchFailedWithSnapshot ==
    CycleOver /\ cycle.done /\ cycle.weather = "failed"

\* C14: a cycle whose weather/air fetch fails while an earlier snapshot
\* exists records a data-API failure, goes on with that snapshot and is in
\* fail-safe mode: the decision, made when AI mode is on, is forced and
\* gives the baseline as fan target without an advisory request, and both
\* notes are the canned fallback text, again without a request.
C14_FetchFailureIsFailSafe ==
    FetchFailedWithSnapshot =>
        /\ api_failures >= 1 /\ ~last_api_ok
        /\ last_weather # None /\ cycle.snapshot = last_weather
        /\ cycle.local_fail_safe /\ fail_safe_mode
        /\ cycle.advisory \in {"forced", "none"}
        /\ cycle.advisory = "forced" =>
              /\ ~ai_call.queried
              /\ cycle.ai_target
                    = Some(curve_baseline_speed(Val(cycle.snapshot)))
              /\ ai_target_speed = cycle.ai_target
        /\ cycle.advice = "forced" /\ cycle.pollution = "forced"
        /\ cached_advice = Some(CannedNote)
        /\ cached_pollution_comment = Some(CannedNote)

\* such a cycle in AI mode, 240 s after a cycle that fetched the snapshot
\* and got both notes from the advisory
C14_Witness ==
    /\ FetchFailedWithSnapshot
    /\ cycle.advisory = "forced"
    /\ ai_target_speed = Some(41)
    /\ last_advice_ts = StartTime
    /\ last_pollution_comment_ts = StartTime
    /\ last_weather_fetch_ts = StartTime
    /\ now = StartTime + WEATHER_REFRESH_INTERVAL_SECONDS

-----------------------------------------------------------------------------
(* Properties of FanController.should_push                                 *)

\* the last call was should_push and it returned True
PushAllowed == fan_call.op = "should_push" /\ fan_call.result

\* the applied duty differs from the reported duty by at least 2
PushDiffers == Abs(Val(ai_applied_speed) - fan_call.current) >= 2

\* C15 as stated: should_push returns True only if the duties differ by at
\* least 2 and at least 3 s have passed since the most recent push marked,
\* whatever calls came in between
C15_PushAtLeast3sAfterAnyPush ==
    PushAllowed =>
        /\ ai_applied_speed # None
        /\ PushDiffers
        /\ pushed_at # None => now - Val(pushed_at) >= 3

\* C15: should_push returns True only if the duties differ by at least 2
\* and either no push has been marked since the last reset_ai_state (the
\* reset puts the push time back to 0) or more than 3 s have passed since
\* the most recent push marked.
C15_PushAfterIntervalOrReset ==
    /\ last_ai_push_ts = 0 \/ Some(last_ai_push_ts) = pushed_at
    /\ PushAllowed =>
          /\ ai_applied_speed # None
          /\ PushDiffers
          /\ \/ last_ai_push_ts = 0
             \/ now - Val(pushed_at) > 3

\* a push was marked, no reset followed, and 4 s later should_push
\* returns True
C15_Witness ==
    /\ PushAllowed
    /\ pushed_at = Some(StartTime)
    /\ last_ai_push_ts = StartTime
    /\ now = StartTime + 4

-----------------------------------------------------------------------------
(* Properties of the FilterState                                           *)

RuntimeWithinCap ==
    /\ RuntimeLeq(NoRuntime, filter_state.runtime_hours)
    /\ RuntimeLeq(filter_state.runtime_hours, Runtime(1, 0))

IntervalWithinBounds ==
    /\ filter_state.replacement_interval_hours >= MIN_FILTER_HOURS
    /\ filter_state.replacement_interval_hours <= MAX_FILTER_HOURS

\* C16: in every state reached by loads, updates, resets and
\* set_replacement_interval calls, runtime_hours is within [0, 50000] and
\* replacement_interval_hours within [100, 5000]
C16_StateWithinBounds == RuntimeWithinCap /\ IntervalWithinBounds

\* what holds of it: the runtime is never negative, the interval is within
\* its bounds, and the units beside the caps stay small
C16_LowerBoundAndInterval ==
    /\ RuntimeLeq(NoRuntime, filter_state.runtime_hours)
    /\ IntervalWithinBounds
    /\ Abs(filter_state.runtime_hours.units) < MaxRuntimeUnits

\* a runtime loaded at the cap has been raised above it by an update
C16_AboveCap ==
    /\ filter_call.op = "update"
    /\ RuntimeHours(filter_state.runtime_hours) >= MAX_RUNTIME_HOURS
    /\ ~RuntimeLeq(filter_state.runtime_hours, Runtime(1, 0))

\* the state as reset() leaves it, until the next operation
AfterReset == filter_call.op = "reset"

C17_WriteFailed ==
    /\ AfterReset
    /\ ~filter_call.written
    /\ state_file # Some(filter_state)

-----------------------------------------------------------------------------
(* Properties of the locks                                                 *)

\* the thread is in acquire of a lock that is held
Blocked(t) ==
    /\ thread_todo[t] # <<>>
    /\ Head(thread_todo[t]).do = "acquire"
    /\ Locked(Head(thread_todo[t]).lock)

\* the thread holding the lock that a blocked thread waits for
Holder(t) == CHOOSE u \in Threads : Holds(u, Head(thread_todo[t]).lock)

\* some threads are blocked and wait only for each other
Deadlocked ==
    \E waiting \in SUBSET Threads :
        /\ waiting # {}
        /\ \A t \in waiting : Blocked(t) /\ Holder(t) \in waiting

\* C18 as stated: no thread holds two locks at once, and no deadlock state
\* is reachable
C18_NeverTwoLocks ==
    /\ \A t \in Threads : Len(held[t]) <= 1
    /\ ~Deadlocked

\* C18: a thread holds two locks only as current_config does, the filter
\* lock inside the backend lock; under the lock of a component nothing
\* else is acquired, and no deadlock state is reachable
C18_OnlyFilterInsideBackend ==
    /\ \A t \in Threads :
          \/ Len(held[t]) <= 1
          \/ held[t] = <<Lock("web", "backend"), Lock("web", "filter")>>
    /\ ~Deadlocked

\* one handler holds the filter lock inside the backend lock while the
\* other waits for the backend lock
C18_Witness ==
    \E t \in WebThreads, u \in WebThreads :
        /\ held[t] = <<Lock("web", "backend"), Lock("web", "filter")>>
        /\ Blocked(u)
        /\ Head(thread_todo[u]).lock = Lock("web", "backend")

-----------------------------------------------------------------------------
(* Properties of shutdown                                                  *)

\* a step of the worker thread
CycleWorkerStep ==
    \/ CycleWorkerBegin
    \/ CycleReadEsp
    \/ CycleWeather
    \/ CycleControl
    \/ CycleCompute
    \/ CycleShouldPush
    \/ CyclePush
    \/ CycleAdvice
    \/ CyclePollution
    \/ CycleFilter
    \/ CycleFinally

\* a worker thread has been started and has not reached its end
InFlight == refresh_workers > 0

\* once the flag is set it stays set, the main thread is in no handler and
\* enters none, and no worker thread is started
NoSchedulingAfterShutdown ==
    [][shutdown_event
          => /\ shutdown_event'
             /\ main_pc = "idle"
             /\ main_pc' = "idle"
             /\ refresh_workers' <= refresh_workers
             /\ refresh_in_progress' => refresh_in_progress]_vars

\* C19 as stated: after the flag is set no cycle is started and no tick
\* scheduled, and the cycle in flight runs to its end: the process does
\* not end with a cycle unfinished
C19_InFlightCycleCompletes ==
    /\ NoSchedulingAfterShutdown
    /\ [](exited => ~InFlight)

\* C19: after the flag is set no cycle is started and no tick scheduled;
\* the flag does not stop the cycle in flight, which can take its next step
\* as long as the process has not exited, and takes none after the exit
C19_ShutdownStopsSchedulingOnly ==
    /\ NoSchedulingAfterShutdown
    /\ [](shutdown_event /\ InFlight /\ ~exited => ENABLED CycleWorkerStep)
    /\ [][exited => UNCHANGED <<refresh_workers, cycle_pc, cycle>>]_vars

\* the cycle in flight at _on_close has gone on to update the filter after
\* the flush of _on_close: the state in memory is newer than the file
C19_Witness ==
    /\ shutdown_event
    /\ ~exited
    /\ InFlight
    /\ cycle.done
    /\ state_file # Some(filter_state)

\* the process has exited in the middle of a cycle
C19_CutOff ==
    /\ exited
    /\ InFlight
    /\ cycle_pc \notin {"none", "finally"}

-----------------------------------------------------------------------------
(* Properties of DataManager.send_esp_command                              *)

\* the requests a command has issued after its JSON request
Fallback == SubSeq(cmd.sent, 2, Len(cmd.sent))

\* a body that is a JSON object or stands for one
IsMapping(body) == body \in {"object", "pairs"}

\* every attempt of the JSON request has failed
JsonAttemptsFailed ==
    /\ Len(cmd.json_outcomes) = CommandAttempts
    /\ \A i \in 1..Len(cmd.json_outcomes) : cmd.json_outcomes[i] # "ok"

\* the JSON request has come back with a body
JsonSucceeded ==
    /\ cmd.json_outcomes # <<>>
    /\ cmd.json_outcomes[Len(cmd.json_outcomes)] = "ok"

\* the text request goes to the path of the command, and the re-read to
\* /state and then /data
FallbackInOrder ==
    /\ Len(Fallback) <= 3
    /\ Len(Fallback) >= 1 => Fallback[1] = Issued("text", cmd.path)
    /\ Len(Fallback) >= 2 => Fallback[2] = Issued("json", "/state")
    /\ Len(Fallback) >= 3 => Fallback[3] = Issued("json", "/data")

\* how a finished command has ended: with the acknowledgment and no
\* fallback, with the state re-read after the text request, or with the
\* error of the text request or of the re-read
EndsAsSent ==
    /\ cmd.result = "ack" <=> (cmd.pc = "returned" /\ Fallback = <<>>)
    /\ cmd.result = "state"
          <=> (cmd.pc = "returned" /\ Len(Fallback) \in {2, 3})
    /\ cmd.result = "state" => IsMapping(cmd.bodies[Len(cmd.bodies)])
    /\ cmd.pc = "raised"
          => /\ Len(Fallback) \in {1, 3}
             /\ req.pc = "raised"
                   \/ ~IsMapping(cmd.bodies[Len(cmd.bodies)])

\* C20 as stated: the acknowledgment is returned when the JSON request
\* succeeds, and the text request is issued only when every attempt of
\* the JSON request has failed
C20_FallbackOnlyAfterFailedAttempts ==
    /\ FallbackInOrder
    /\ EndsAsSent
    /\ cmd.pc \notin {"idle", "json"}
          => /\ JsonSucceeded => cmd.result = "ack"
             /\ Fallback # <<>> => JsonAttemptsFailed

\* C20: the acknowledgment is returned when the JSON request succeeds with
\* a body that is a mapping; the text request is issued, to the same path,
\* when every attempt of the JSON request has failed or its body is not a
\* mapping; the state re-read from /state or /data is then returned, and
\* the command raises only if the text request or the re-read fails
C20_FallbackAfterFailureOrBadBody ==
    /\ FallbackInOrder
    /\ EndsAsSent
    /\ cmd.pc \notin {"idle", "json"}
          => /\ JsonSucceeded \/ JsonAttemptsFailed
             /\ (JsonSucceeded /\ IsMapping(cmd.bodies[1]))
                   <=> cmd.result = "ack"
             /\ Fallback # <<>>
                   <=> (JsonAttemptsFailed
                           \/ (JsonSucceeded /\ ~IsMapping(cmd.bodies[1])))

\* every attempt of the JSON request failed, the text request went through
\* and the state re-read from /data was returned
C20_Witness ==
    /\ cmd.pc = "returned"
    /\ cmd.result = "state"
    /\ JsonAttemptsFailed
    /\ Len(Fallback) = 3

\* the JSON request succeeded with a body that is no mapping, and the
\* command was sent again as text
C20_SentTwice ==
    /\ JsonSucceeded
    /\ Fallback # <<>>

-----------------------------------------------------------------------------
(* Properties of the geo cache                                             *)

\* geocode requests that found the coordinates: at most one per thread at
\* a time is waiting to store
Storing(key) ==
    {t \in WebThreads : weather_call[t] = [pc |-> "store", key |-> key]}

\* C21: for each city key the geocode request is issued at most once that
\* finds the coordinates, and never again once the key is in the cache
C21_GeocodedOncePerCity ==
    \A key \in CityKeys :
        /\ Cardinality(Storing(key)) <= 1
        /\ key \in geo_cache => Storing(key) = {}
        /\ (key \in geo_cache \/ Storing(key) # {})
              => \A t \in WebThreads :
                    weather_call[t] # [pc |-> "geocode", key |-> key]

\* two calls have each resolved the same city
C21_ResolvedTwice ==
    \E key \in CityKeys : Cardinality(Storing(key)) = 2

\* a key in the cache is never looked up by a call that starts afterwards
C21_NoLookupByLaterCalls ==
    [][\A t \in WebThreads :
          (weather_call[t].pc = "none" /\ weather_call'[t].pc = "geocode")
              => weather_call'[t].key \notin geo_cache]_vars

-----------------------------------------------------------------------------
(* Properties of the calibration curve                                     *)

\* the entries of the file the constructor has read
FileSamples == cal_call.data.samples

\* C22: every calibration of _load_calibration or of the sweep fit has its
\* samples in ascending duty order with non-decreasing RPM, and its
\* spin-up RPM is at most its max RPM
C22_CurveOrdered ==
    calibration # None
        => /\ \A i \in 2..Len(CurveSamples) :
                 /\ CurveSamples[i - 1].pwm <= CurveSamples[i].pwm
                 /\ CurveSamples[i - 1].rpm <= CurveSamples[i].rpm
           /\ Val(calibration).spin_up_rpm <= Val(calibration).max_rpm

\* a file whose samples come with falling duty and with an RPM that falls
\* as the duty rises, and whose stored max RPM is below its stored spin-up
\* RPM, has been loaded
C22_Witness ==
    /\ cal_call.op = "load"
    /\ calibration # None
    /\ Len(FileSamples) = 3
    /\ \A i \in 1..3 : FileSamples[i].pwm # None /\ FileSamples[i].rpm # None
    /\ Val(FileSamples[1].pwm) > Val(FileSamples[2].pwm)
    /\ Val(FileSamples[1].rpm) > Val(FileSamples[2].rpm)
    /\ Val(FileSamples[3].pwm) > Val(FileSamples[1].pwm)
    /\ Val(FileSamples[3].rpm) < Val(FileSamples[1].rpm)
    /\ cal_call.data.spin_up_rpm = Some(900)
    /\ cal_call.data.max_rpm = Some(300)

\* the sweep whose readings dip has been fitted
C22_SweepWithDip ==
    /\ cal_call.op = "save"
    /\ CurveSamples[2].rpm = 600
    /\ CurveSamples[3].rpm = 600

\* an entry of a calibration file whose duty and RPM are both numbers
NumericEntry(raw) == raw.pwm # None /\ raw.rpm # None

\* the entries of the file that are numeric
NumericEntries == SelectSeq(FileSamples, NumericEntry)

\* C23: _load_calibration returns None whenever fewer than two numeric
\* entries remain in the file
C23_FewerThanTwoIsNone ==
    (cal_call.op = "load" /\ Len(NumericEntries) < 2) => calibration = None

\* what holds of it: such a file never yields a duty, pwm_for_demand
\* returning None unless the entries that are not numeric, read as zero,
\* make up the two samples
C23_OneSampleYieldsNoDuty ==
    (cal_call.op = "pwm" /\ calibration # None /\ Len(CurveSamples) < 2)
        => cal_call.result = None

\* a file with one numeric entry and one that is not has been loaded as a
\* curve of two samples, the other at duty 0 and 0 RPM
C23_FabricatedSample ==
    /\ cal_call.op = "load"
    /\ Len(FileSamples) = 2
    /\ Len(NumericEntries) = 1
    /\ calibration # None
    /\ Len(CurveSamples) = 2
    /\ CurveSamples[1] = [pwm |-> 0, rpm |-> 0]

-----------------------------------------------------------------------------
(* Properties of CalibrationManager.pwm_for_demand                         *)

\* the samples pwm_for_demand interpolates over
CurveValid == SortByRpm(ValidSamples(CurveSamples))

\* the target RPM of the call
CallTarget ==
    TargetRpm(Val(calibration).spin_up_rpm, Val(calibration).max_rpm,
              cal_call.dnum)

\* the call has a curve to work on
Calibrated ==
    /\ calibration # None
    /\ Len(CurveSamples) >= 2
    /\ Len(CurveValid) >= 2
    /\ Val(calibration).max_rpm > Val(calibration).spin_up_rpm

\* the target of the call lies inside the curve, past both end samples
TargetInside ==
    /\ Calibrated
    /\ CurveValid[1].rpm < CallTarget
    /\ CallTarget < CurveValid[Len(CurveValid)].rpm

CallProfile == PROFILE_CONFIG[cal_call.profile]

\* the call is pwm_for_demand(0.5) on the curve of the worked example
ExampleCall ==
    /\ cal_call.op = "pwm"
    /\ calibration = load_calibration(ExampleFile)
    /\ cal_call.dnum * 2 = DemandDen

\* C24: on the curve of the example pwm_for_demand(0.5) aims at 1050 RPM
\* and returns 58 under a profile whose bounds contain 58; and whenever
\* the target lies inside the curve, the duty interpolated over a
\* bracketing pair lies between the duties of the pair, and the duty
\* returned is that of the first such pair clamped to the profile
C24_InterpolatesBetweenPair ==
    /\ ExampleCall
          => /\ CallTarget = 1050
             /\ (CallProfile.min_speed <= 58 /\ 58 <= CallProfile.max_speed)
                   => cal_call.result = Some(58)
    /\ (cal_call.op = "pwm" /\ TargetInside)
          => /\ Brackets(CurveValid, CallTarget) # {}
             /\ \A i \in Brackets(CurveValid, CallTarget) :
                   LET low == CurveValid[i - 1]
                       high == CurveValid[i]
                       duty == IF low.rpm = high.rpm THEN high.pwm
                               ELSE InterpolatedDuty(low, high, CallTarget)
                   IN  /\ low.pwm <= duty
                       /\ duty <= high.pwm
                       /\ (\A j \in Brackets(CurveValid, CallTarget) : i <= j)
                             => cal_call.result
                                   = Some(clamp(duty, CallProfile.min_speed,
                                                CallProfile.max_speed))

\* the call of the example under the balanced profile has returned 58, a
\* duty strictly between those of the samples (50, 900) and (100, 1800)
C24_Witness ==
    /\ ExampleCall
    /\ cal_call.profile = "balanced"
    /\ TargetInside
    /\ Brackets(CurveValid, CallTarget) = {3}
    /\ cal_call.result = Some(58)

-----------------------------------------------------------------------------
(* Properties of the advisory throttle                                     *)

\* the thresholds of the numeric fields, in tenths
FieldThreshold(key) ==
    CASE key = "aqi" -> 10
      [] key \in {"pm2_5", "pm10"} -> 60
      [] key \in {"room_temp", "outside_temp"} -> 12
      [] key \in {"room_humidity", "outside_humidity"} -> 80
      [] OTHER -> 5

\* some numeric field has changed by more than its threshold, or the
\* description differs
Exceeds(previous, current) ==
    \E key \in DOMAIN current :
        IF key = "weather_desc" THEN current[key] # previous[key]
        ELSE Abs(current[key] - previous[key]) > FieldThreshold(key)

\* some numeric field has changed by its threshold or more, or the
\* description differs
Reaches(previous, current) ==
    \E key \in DOMAIN current :
        IF key = "weather_desc" THEN current[key] # previous[key]
        ELSE Abs(current[key] - previous[key]) >= FieldThreshold(key)

\* a prior context exists and the last request is 120 s to 300 s old
InWindow(last_ts, last_context) ==
    /\ last_context # None
    /\ now - last_ts >= LLM_MIN_INTERVAL_SECONDS
    /\ now - last_ts < LLM_MAX_INTERVAL_SECONDS

\* a call of the cycle that is not forced
FreeFanCall == \E r \in CycleReplies :
    ThrottleFanCall(r) /\ ~cycle.local_fail_safe

FreeAdviceCall == \E r \in CycleReplies :
    ThrottleAdviceCall(r) /\ ~cycle.local_fail_safe

FreePollutionCall == \E r \in CycleReplies :
    ThrottlePollutionCall(r) /\ ~cycle.local_fail_safe

\* the verdict every call in the window follows: a request if and only if
\* changed(previous context, context of the call)
QueryIff(changed(_, _)) ==
    /\ (FreeFanCall /\ InWindow(last_fan_ai_ts, last_fan_context))
          => (ai_call'.queried
                 <=> changed(Val(last_fan_context),
                             fan_context(Val(cycle.snapshot))))
    /\ (FreeAdviceCall /\ InWindow(last_advice_ts, last_weather_context))
          => (cycle'.advice \in {"ok", "failed"}
                 <=> changed(Val(last_weather_context),
                             weather_context(Val(cycle.snapshot))))
    /\ (FreePollutionCall
            /\ InWindow(last_pollution_comment_ts, last_pollution_context))
          => (cycle'.pollution \in {"ok", "failed"}
                 <=> changed(Val(last_pollution_context),
                             pollution_context(Val(cycle.snapshot))))

\* C25 as stated: with 120 s <= elapsed < 300 s and a prior context, a
\* request is made if and only if some numeric field has changed by more
\* than its threshold or a non-numeric field differs, so that a change
\* equal to the threshold makes no request
C25_QueryIffChangeExceeds == [][QueryIff(Exceeds)]_vars

\* C25: with 120 s <= elapsed < 300 s and a prior context, a request is
\* made if and only if some numeric field has changed by at least its
\* threshold (AQI 1.0, PM2.5 and PM10 6.0, temperatures 1.2, humidities
\* 8.0, any other numeric field 0.5) or the description differs; a change
\* equal to the threshold makes a request and a smaller one does not
C25_QueryIffChangeReaches == [][QueryIff(Reaches)]_vars

\* a fan-target request made 120 s to 300 s after the last one on the
\* context of the warmer day, the prior context being that of the mild
\* day: the AQI has changed by 1.0 and the room by 1.1 degrees
C25_Witness ==
    /\ ai_call.op = "decide"
    /\ ~ai_call.forced
    /\ ai_call.asked
    /\ ai_call.elapsed >= LLM_MIN_INTERVAL_SECONDS
    /\ ai_call.elapsed < LLM_MAX_INTERVAL_SECONDS
    /\ ~ai_call.same
    /\ ai_call.queried
    /\ last_fan_context = Some(fan_context(WarmerDay))

\* a climate note kept 120 s to 300 s after the last request although the
\* room is 1.1 degrees warmer than in the prior context
C25_SmallChangeKept ==
    /\ cycle_pc = "pollution"
    /\ cycle.advice = "cached"
    /\ now - last_advice_ts >= LLM_MIN_INTERVAL_SECONDS
    /\ last_weather_context # None
    /\ Val(last_weather_context) # weather_context(Val(cycle.snapshot))
    /\ Val(last_weather_context).weather_desc
          = Val(cycle.snapshot).weather_desc

\* a call of each class, forced or not
AnyFanCall == \E r \in CycleReplies : ThrottleFanCall(r)

AnyAdviceCall == \E r \in CycleReplies : ThrottleAdviceCall(r)

AnyPollutionCall == \E r \in CycleReplies : ThrottlePollutionCall(r)

\* what holds of a call given whether it made a request: a request is
\* stamped with its time and comes 120 s or more after the stamp before
\* it; a call that is not forced and finds nothing cached makes a request
ThrottledCall(requested, forced, cached, last_ts, stamp) ==
    /\ requested => /\ stamp = now
                    /\ now - last_ts >= LLM_MIN_INTERVAL_SECONDS
    /\ ~requested => stamp = last_ts
    /\ (cached = None /\ ~forced) => requested

\* C26: in each class a stamp moves only when a request is made, and then
\* to the time of the request; every request comes at least 120 s after
\* the stamp of the request before it, whether that request failed and
\* whether forced cycles came in between; a call that finds no cached
\* value makes a request whatever the context
C26_RequestsThrottled ==
    [][/\ AnyFanCall
             => ThrottledCall(ai_call'.queried, cycle.local_fail_safe,
                              cached_fan_speed, last_fan_ai_ts,
                              last_fan_ai_ts')
       /\ AnyAdviceCall
             => ThrottledCall(cycle'.advice \in {"ok", "failed"},
                              cycle.local_fail_safe, cached_advice,
                              last_advice_ts, last_advice_ts')
       /\ AnyPollutionCall
             => ThrottledCall(cycle'.pollution \in {"ok", "failed"},
                              cycle.local_fail_safe,
                              cached_pollution_comment,
                              last_pollution_comment_ts,
                              last_pollution_comment_ts')]_vars

\* a second fan-target request, made 120 s or more after the first
C26_Witness ==
    /\ ai_call.op = "decide"
    /\ ai_call.queried
    /\ ai_call.asked
    /\ ai_call.elapsed >= LLM_MIN_INTERVAL_SECONDS
    /\ ai_call.elapsed <= MaxThrottleClock
    /\ last_fan_ai_ts = now

\* a call 119 s after a request that failed, on another context: no
\* request is made
C26_Refused ==
    /\ ai_call.op = "decide"
    /\ ~ai_call.forced
    /\ ai_call.asked
    /\ ai_call.elapsed = LLM_MIN_INTERVAL_SECONDS - 1
    /\ ~ai_call.same
    /\ ~ai_call.queried
    /\ ai_failures > 0

-----------------------------------------------------------------------------
(* Properties of the deadband of compute_applied_speed                     *)

\* the error of the call, the target clamped and the applied duty seeded
FanCallError == fan_call.target - fan_call.seeded

\* the duty the call started from lies within the bounds of its profile
FanSeededInBounds ==
    /\ fan_call.seeded >= PROFILE_CONFIG[fan_call.profile].min_speed
    /\ fan_call.seeded <= PROFILE_CONFIG[fan_call.profile].max_speed

\* the applied duty after the step and before the final clamp
FanCallMoved ==
    IF Abs(FanCallError) < 2 THEN fan_call.seeded
    ELSE fan_call.seeded
             + clamp(FanCallError, -PROFILE_CONFIG[fan_call.profile].step,
                     PROFILE_CONFIG[fan_call.profile].step)

\* C27 as stated: every call leaves the applied duty as it was when the
\* error magnitude is 0 or 1 and otherwise adds the error clamped to the
\* step limit, for any sequence of calls and profiles
C27_DeadbandAnyProfile ==
    fan_call.op = "compute" => fan_call.applied = FanCallMoved

\* C27: every call that finds the applied duty within the bounds of the
\* profile passed to it leaves it as it was when the error magnitude is 0
\* or 1 and otherwise adds the error clamped to the step limit; a call that
\* finds it outside those bounds returns that result clamped to the bounds
C27_DeadbandWithinBounds ==
    fan_call.op = "compute" =>
        /\ FanSeededInBounds => fan_call.applied = FanCallMoved
        /\ fan_call.applied
              = clamp(FanCallMoved, PROFILE_CONFIG[fan_call.profile].min_speed,
                      PROFILE_CONFIG[fan_call.profile].max_speed)

\* a call after the seeding call with an error of magnitude 1 that left
\* the applied duty as it was
C27_Witness ==
    /\ fan_call.op = "compute"
    /\ fan_call.before # None
    /\ FanSeededInBounds
    /\ Abs(FanCallError) = 1
    /\ fan_call.applied = fan_call.seeded

\* a call with an error of magnitude 1 that changed the applied duty
C27_MovedInsideDeadband ==
    /\ fan_call.op = "compute"
    /\ Abs(FanCallError) < 2
    /\ fan_call.applied # fan_call.seeded

-----------------------------------------------------------------------------
(* Properties of the mode switch                                           *)

\* the FanController as reset_ai_state leaves it, in the next state
ClearedNext ==
    /\ ai_target_speed' = None
    /\ ai_applied_speed' = None
    /\ last_ai_push_ts' = 0

\* the checkbox is cleared; the checkbox is set
SwitchOut == ai_auto_var /\ ~ai_auto_var'

SwitchIn == ~ai_auto_var /\ ai_auto_var'

\* the worker takes the branch of a cycle in manual mode
ManualBranch == WorkerAt("control") /\ ~ai_auto_var /\ cycle_pc' = "advice"

\* C28 as stated: the first step on an empty state seeds the applied duty
\* from the duty the device reported, clamped to the profile, and the
\* state is cleared by the step that clears the checkbox
C28_ClearedOnSwitchOut ==
    [][/\ (worker_compute /\ ai_applied_speed = None)
             => fan_call'.seeded
                   = clamp(Val(cycle.reading).speed,
                           PROFILE_CONFIG[CycleProfile].min_speed,
                           PROFILE_CONFIG[CycleProfile].max_speed)
       /\ SwitchOut => ClearedNext]_vars

\* C28: the first step on an empty state seeds the applied duty from the
\* duty the device reported, clamped to the profile; the state (target,
\* applied, push stamp) is cleared by the step that sets the checkbox and
\* by every cycle that runs in manual mode, and an applied duty is only
\* stored by a step, so that every step after the checkbox was set starts
\* from an empty state or from a duty computed since
C28_ClearedOnSwitchIn ==
    [][/\ (worker_compute /\ ai_applied_speed = None)
             => fan_call'.seeded
                   = clamp(Val(cycle.reading).speed,
                           PROFILE_CONFIG[CycleProfile].min_speed,
                           PROFILE_CONFIG[CycleProfile].max_speed)
       /\ SwitchIn => ClearedNext
       /\ ManualBranch => ClearedNext
       /\ (ai_applied_speed' # ai_applied_speed /\ ai_applied_speed' # None)
             => worker_compute]_vars

\* the first automatic step after a cycle in manual mode, seeded from the
\* duty the device reported
C28_Witness ==
    /\ ai_auto_var
    /\ cycle_pc = "should_push"
    /\ fan_call.op = "compute"
    /\ fan_call.before = None
    /\ prev_cycle.esp = "ok"
    /\ prev_cycle.weather \in {"ok", "cached"}
    /\ prev_cycle.advisory = "none"

\* the checkbox is cleared and the applied duty of the last step is kept
C28_KeptInManualMode ==
    /\ ~ai_auto_var
    /\ ai_applied_speed # None
    /\ cycle_pc = "none"

\* the samples of the calibration that pwm_for_demand takes as valid
CountedSamples ==
    {i \in 1..Len(CurveSamples) :
        /\ 0 <= CurveSamples[i].pwm
        /\ CurveSamples[i].pwm <= 100
        /\ 0 <= CurveSamples[i].rpm
        /\ CurveSamples[i].rpm <= FAN_APP_MAX_RPM}

\* the cases the call has no duty for
Uncalibrated ==
    \/ calibration = None
    \/ Cardinality(CountedSamples) < 2
    \/ Val(calibration).max_rpm <= Val(calibration).spin_up_rpm

\* C29: pwm_for_demand returns None if and only if no calibration is
\* loaded, fewer than 2 valid samples exist or max RPM <= spin-up RPM; in
\* every other case, for every demand in [0, 1], it returns a duty within
\* the bounds of the profile, its last return being out of reach
C29_NoneIffUncalibrated ==
    cal_call.op = "pwm" =>
        /\ cal_call.result = None <=> Uncalibrated
        /\ cal_call.result # None
              => /\ Val(cal_call.result) >= CallProfile.min_speed
                 /\ Val(cal_call.result) <= CallProfile.max_speed

\* a call whose target is the RPM of a sample inside the curve: the loop
\* finds a pair and returns a duty
C29_Witness ==
    /\ cal_call.op = "pwm"
    /\ TargetInside
    /\ \E i \in 2..(Len(CurveValid) - 1) : CurveValid[i].rpm = CallTarget
    /\ cal_call.result # None

\* a call on a calibration whose max RPM is its spin-up RPM: no duty
C29_FlatCurve ==
    /\ cal_call.op = "pwm"
    /\ calibration # None
    /\ Cardinality(CountedSamples) >= 2
    /\ Val(calibration).max_rpm = Val(calibration).spin_up_rpm
    /\ cal_call.result = None

-----------------------------------------------------------------------------
(* Properties of the manual-send worker                                    *)

\* a worker thread is alive: started and not yet returned
WorkerAlive == manual_pc # "none"

\* _manual_speed_changed starts a thread: it is the step that sets the flag
WorkerStarted == ~manual_sender_running /\ manual_sender_running'

\* C30: at most one manual-send worker runs at any time: a worker is
\* started only while none is alive, the flag stays set for as long as the
\* worker is alive, and it is cleared only by the step in which the worker
\* returns, for every interleaving of slider changes with the worker's
\* take-value, send and exit steps
C30_AtMostOneManualWorker ==
    [][/\ WorkerStarted => (~WorkerAlive /\ manual_pc' = "take")
       /\ WorkerAlive' => manual_sender_running'
       /\ (manual_sender_running /\ ~manual_sender_running')
             => (manual_pc = "check" /\ ~WorkerAlive')]_vars

\* a slider change has arrived between the worker's take-value step, which
\* found nothing, and its exit step: the worker goes on and no thread is
\* started
C30_Witness ==
    /\ manual_pc = "check"
    /\ manual_sender_running
    /\ manual_pending_speed # None

-----------------------------------------------------------------------------
(* Properties of the manual sender                                         *)

\* the request numbered k has been sent to the device
SentRequest(k) == \E entry \in manual_sent : entry.id = k

\* the worker has returned
WorkerGone == ~manual_sender_running /\ manual_pc = "none"

\* a value waits in the slot only while a worker is running
PendingHasWorker == manual_pending_speed # None => manual_sender_running

\* C31: with the AI mode off and every exchange with the device
\* succeeding, whenever request k is the last one made, either another
\* request follows or k is sent and the worker then returns with
\* manual_sender_running false; and in every state a value waiting in the
\* slot has a worker running
C31_LastValueSent ==
    /\ []PendingHasWorker
    /\ \A k \in 1..(MaxRequests + 1) :
          (last_request.id = k)
              ~> (last_request.id > k \/ (SentRequest(k) /\ WorkerGone))

\* the last request that can be made has been sent, after an earlier one
\* was replaced in the slot, and the worker has returned
C31_Witness ==
    /\ ~ai_auto_var
    /\ last_request.id = MaxRequests
    /\ superseded # {}
    /\ SentRequest(last_request.id)
    /\ WorkerGone

-----------------------------------------------------------------------------
(* Properties of the automatic push                                        *)

\* the worker sends the commands of _ensure_manual_and_set_speed
AutomaticPush == \E outcome \in PushOutcomes : worker_push(outcome)

\* C32: a cycle sends its /toggle and /set commands only while the AI-mode
\* checkbox is set, whatever the interleaving of the checkbox with the
\* cycle in flight
C32_PushOnlyInAiMode == [][AutomaticPush => ai_auto_var]_vars

-----------------------------------------------------------------------------
(* Properties of the refresh flag                                          *)

\* C33: every cycle, whichever way it ends, clears refresh_in_progress:
\* whenever the flag is set it is cleared later; the flag is cleared by
\* the finally block and by nothing else; and a refresh_async that finds
\* it clear sets it and goes on to start a cycle
C33_FlagAlwaysCleared ==
    /\ refresh_in_progress ~> ~refresh_in_progress
    /\ [][/\ (refresh_in_progress /\ ~refresh_in_progress')
                => (cycle_pc = "finally" /\ cycle_pc' = "none")
          /\ (main_refresh_lock /\ ~refresh_in_progress)
                => (refresh_in_progress' /\ main_pc' = "ra_locked")]_vars

\* a cycle that found the device unreachable has ended and the flag is
\* clear
C33_Witness ==
    /\ cycle_pc = "none"
    /\ cycle.esp = "failed"
    /\ ~refresh_in_progress
    /\ refresh_workers = 0

\* a cycle cut short by an exception after its push has ended and the flag
\* is clear
C33_ClearedAfterException ==
    /\ cycle_pc = "none"
    /\ cycle.pushed = "ok"
    /\ cycle.advice = "none"
    /\ ~refresh_in_progress

-----------------------------------------------------------------------------
(* Properties of a cycle whose device read fails                           *)

\* what a cycle works on after the device read: the device and its last
\* reading, the weather, the advisory throttle and notes, the fan
\* controller, the filter tracker, and the weather and advisory health
ReadFrame ==
    <<device, last_esp, last_weather, last_weather_fetch_ts, fail_safe_mode,
      noteVars, fanVars, aiVars, filterVars, api_failures, ai_failures,
      last_api_ok, last_ai_ok>>

\* the device read of the cycle fails
ReadFails == cycle.esp # "failed" /\ cycle'.esp = "failed"

\* C34: a failed device read records a device failure and sends the cycle
\* to its end, where nothing but the read has been attempted: no weather,
\* advisory, actuator step, push or filter update, and none of their state
\* changed by the read or by the end of the cycle
C34_FailedReadEndsCycle ==
    /\ [](cycle.esp = "failed"
             => /\ cycle_pc \in {"finally", "none"}
                /\ [cycle EXCEPT !.esp = "none"] = NoCycle)
    /\ [][ReadFails
             => /\ esp_failures' = esp_failures + 1
                /\ ~last_esp_ok'
                /\ cycle_pc' = "finally"
                /\ UNCHANGED ReadFrame]_vars
    /\ [][(cycle.esp = "failed" /\ CycleFinally)
             => UNCHANGED <<ReadFrame, healthVars>>]_vars

\* a cycle has ended on a failed read after an earlier cycle fetched the
\* weather and stepped the fan
C34_Witness ==
    /\ cycle_pc = "none"
    /\ cycle.esp = "failed"
    /\ prev_cycle.esp = "ok"
    /\ last_weather # None
    /\ last_esp # None
    /\ esp_failures > 0

-----------------------------------------------------------------------------
(* Properties of the toggle command.  The device flips between automatic   *)
(* and manual mode on every /toggle request it answers.  An attempt that   *)
(* got a body, JSON or not, was answered; one that timed out may or may    *)
(* not have reached the device and is not counted.                         *)

\* the attempts among the outcomes that the device answered
Answered(outcomes) ==
    Cardinality({i \in 1..Len(outcomes) :
                    outcomes[i] \in {"ok", "invalid_json"}})

\* the text request of the command has returned: /state was asked for
TextAnswered ==
    \E i \in 1..Len(cmd.sent) : cmd.sent[i] = Issued("json", "/state")

\* the least number of times the command has flipped the device
LeastFlips ==
    Answered(cmd.json_outcomes) + (IF TextAnswered THEN 1 ELSE 0)

\* C35: a /toggle command that returns has flipped the device once
C35_ToggleFlipsOnce ==
    (cmd.pc = "returned" /\ cmd.path = "/toggle") => LeastFlips = 1

-----------------------------------------------------------------------------
(* Properties of repeated calls of compute_applied_speed with one profile  *)
(* and one target                                                          *)

RECURSIVE StepsApplied(_, _, _, _)
\* the applied duty after n calls with the target and the profile
StepsApplied(applied, target, profile, n) ==
    IF n = 0 THEN applied
    ELSE StepApplied(StepsApplied(applied, target, profile, n - 1),
                     target, profile)

CeilDiv(a, b) == (a + b - 1) \div b

\* the calls the claim allows a run from the seeded duty of the last call
FanCallsAllowed ==
    CeilDiv(Abs(FanCallError), PROFILE_CONFIG[fan_call.profile].step)

\* the applied duty n calls after the last call began
FanRun(n) ==
    StepsApplied(fan_call.seeded, fan_call.target,
                 PROFILE_CONFIG[fan_call.profile], n)

\* the call repeats the one before it: same profile, same clamped target,
\* and no reset between them
FanCallRepeats ==
    /\ FanCompute
    /\ fan_call.op = "compute"
    /\ fan_call'.profile = fan_call.profile
    /\ fan_call'.target = fan_call.target

\* C36: from the duty a call starts at, within the bounds of its profile,
\* the duties of a run of calls with the same target and profile come no
\* farther from the target at each call and never pass it, and after
\* ceil(|target - applied| / step) calls the duty is within 1 of the target
\* and stays where it is; the call made is the first of that run and a
\* repeated call is the next
C36_StepsConverge ==
    /\ []((fan_call.op = "compute" /\ FanSeededInBounds)
            => /\ fan_call.applied = FanRun(1)
               /\ \A n \in 0..(FanCallsAllowed + 1) :
                     /\ Abs(fan_call.target - FanRun(n + 1))
                           <= Abs(fan_call.target - FanRun(n))
                     /\ (fan_call.target - FanRun(n + 1)) * FanCallError >= 0
                     /\ n >= FanCallsAllowed
                           => /\ Abs(fan_call.target - FanRun(n)) <= 1
                              /\ FanRun(n + 1) = FanRun(n))
    /\ [][FanCallRepeats
            => /\ fan_call'.seeded = fan_call.applied
               /\ fan_call'.applied = FanRun(2)]_vars

\* a run of calls has stopped one short of its target: the last call
\* started where the call before it ended and left the duty there
C36_Witness ==
    /\ fan_call.op = "compute"
    /\ fan_call.before = Some(fan_call.seeded)
    /\ FanSeededInBounds
    /\ Abs(FanCallError) = 1
    /\ fan_call.applied = fan_call.seeded

-----------------------------------------------------------------------------
(* Properties of the failure counters                                      *)

\* a failure is recorded
RecordsFailure == HealthEspFailure \/ HealthApiFailure \/ HealthAiFailure

\* the label status() returns
StatusLabel == status.label

\* C37: no operation lowers a failure counter, a recorded failure raises
\* the sum of the counters by one and a recorded success leaves them; so
\* status() is "Healthy" only with no failure recorded so far, and once it
\* is anything else it is never "Healthy" again
C37_CountersNeverReset ==
    /\ [][/\ esp_failures' >= esp_failures
          /\ api_failures' >= api_failures
          /\ ai_failures' >= ai_failures
          /\ esp_failures' + api_failures' + ai_failures'
                = esp_failures + api_failures + ai_failures
                     + (IF RecordsFailure THEN 1 ELSE 0)]_vars
    /\ [](StatusLabel = "Health: Healthy" => Counters = <<0, 0, 0>>)
    /\ [][StatusLabel # "Health: Healthy"
             => StatusLabel' # "Health: Healthy"]_vars

\* every subsystem has succeeded again after failures of two of them: the
\* status is "Recovering"
C37_Witness ==
    /\ StatusLabel = "Health: Recovering"
    /\ esp_failures > 0
    /\ ai_failures > 0
    /\ last_esp_ok /\ last_api_ok /\ last_ai_ok

-----------------------------------------------------------------------------
(* Properties of the calibration sweep                                     *)

\* the threads between their start and the clearing of the flag
Sweeping == {t \in AutotuneThreads : autotune_pc[t] \in SweepPositions}

\* C38: the flag is set exactly while one thread is sweeping and no second
\* thread sweeps; whenever the flag is set it is cleared later, whichever
\* device calls of the sweep and of the restoring fail; and the thread that
\* clears it goes on to call refresh_async and returns from it
C38_SweepEndsAndRefreshes ==
    /\ [](Cardinality(Sweeping) <= 1 /\ (autotune_in_progress <=> Sweeping # {}))
    /\ autotune_in_progress ~> ~autotune_in_progress
    /\ [][(autotune_in_progress /\ ~autotune_in_progress')
             => \E t \in AutotuneThreads :
                   /\ autotune_pc[t] = "clear"
                   /\ autotune_pc'[t] = "ra_entry"]_vars
    /\ \A t \in AutotuneThreads :
          (autotune_pc[t] = "ra_entry") ~> (autotune_pc[t] = "none")

\* a sweep that failed at a device call has cleared the flag and its
\* thread is about to call refresh_async, no refresh being in progress
C38_Witness ==
    /\ ~autotune_in_progress
    /\ \E t \in AutotuneThreads : autotune_pc[t] = "ra_entry"
    /\ esp_failures > 0
    /\ ~refresh_in_progress

-----------------------------------------------------------------------------
(* Properties of the duty as a function of the demand                      *)

\* the duty pwm_for_demand returns on the curve for the demand and the
\* profile of the call
DutyAt(dnum) == pwm_for_demand(calibration, dnum, CallProfile)

\* target RPMs every 50 RPM up to the maximum of the curve
TargetGrid == {50 * k : k \in 0..(Val(calibration).max_rpm \div 50)}

\* the duty for a target RPM on the curve, with the profile of the call
GridDuty(target_rpm) == DutyForTarget(CurveValid, target_rpm, CallProfile)

\* C39: on a curve with duty ascending, RPM non-decreasing and maximum RPM
\* above the spin-up RPM, every demand has a duty, no lower demand has a
\* higher duty than the demand of the call and no higher demand a lower
\* one; the target RPM does not fall as the demand rises, and the duty does
\* not fall from one target RPM of the grid to the next, the target of the
\* call between them
C39_DutyMonotonicInDemand ==
    (cal_call.op = "pwm" /\ MonotonicCurve /\ Calibrated)
        => /\ cal_call.result = DutyAt(cal_call.dnum)
           /\ \A d \in 0..DemandDen :
                 /\ DutyAt(d) # None
                 /\ d <= cal_call.dnum
                       => Val(DutyAt(d)) <= Val(cal_call.result)
                 /\ d >= cal_call.dnum
                       => Val(DutyAt(d)) >= Val(cal_call.result)
                 /\ d <= cal_call.dnum
                       => TargetRpm(Val(calibration).spin_up_rpm,
                                    Val(calibration).max_rpm, d) <= CallTarget
           /\ \A t \in TargetGrid :
                 /\ GridDuty(t) # None
                 /\ GridDuty(t + 50) # None
                 /\ Val(GridDuty(t)) <= Val(GridDuty(t + 50))
                 /\ (t <= CallTarget /\ CallTarget <= t + 50)
                       => /\ Val(GridDuty(t)) <= Val(cal_call.result)
                          /\ Val(cal_call.result) <= Val(GridDuty(t + 50))

\* a call with a demand strictly between 0 and 1 on such a curve returned
\* a duty strictly between those of demand 0 and demand 1
C39_Witness ==
    /\ cal_call.op = "pwm"
    /\ MonotonicCurve
    /\ Calibrated
    /\ cal_call.dnum \in 1..(DemandDen - 1)
    /\ TargetInside
    /\ Val(DutyAt(0)) < Val(cal_call.result)
    /\ Val(cal_call.result) < Val(DutyAt(DemandDen))

=============================================================================
